---------------------------- MODULE Spec2Model ----------------------------
(***************************************************************************)
(* A model of the datalab curation engine (vietrix/datalab).               *)
(*                                                                         *)
(*   src/src-backend/src/records.rs   record primitives                    *)
(*   src/src-backend/src/io.rs        ingestion, store access, export      *)
(*   src/src-backend/src/filters.rs   filter engine                        *)
(*   src/src-backend/src/distill.rs   distillation engine                  *)
(*   src/src-backend/src/state.rs     session state                        *)
(*   src/src-tauri/src/commands/*.rs  the command surface                  *)
(*                                                                         *)
(* Texts are sequences of one-character strings.  A u64 is the set of its  *)
(* set bit positions (a subset of 0..63): popcount is Cardinality, xor is  *)
(* the symmetric difference, and a shift moves the positions.              *)
(***************************************************************************)
EXTENDS Integers, Sequences, FiniteSets, TLC

VARIABLES
  \* state.rs InnerState: the published session state
  dataset, field_map, filters, distill_config,
  filtered_ids, selected_ids, removed_ids,
  manual_include, manual_exclude,
  \* state.rs AppState.cancel
  cancel,
  \* the commands in flight (one slot per long-running command)
  importOp, filterOp, distillOp, exportOp,
  \* the last reply a command returned to the host
  last

published == <<dataset, field_map, filters, distill_config,
               filtered_ids, selected_ids, removed_ids,
               manual_include, manual_exclude>>

ops == <<importOp, filterOp, distillOp, exportOp>>

vars == <<dataset, field_map, filters, distill_config,
          filtered_ids, selected_ids, removed_ids,
          manual_include, manual_exclude, cancel,
          importOp, filterOp, distillOp, exportOp, last>>

-----------------------------------------------------------------------------
(* Bounds of the model.                                                    *)

\* the longest store (number of records) the pure-function runs enumerate
MaxRecords == 3

\* the longest change list update_manual_selection is called with
MaxChanges == 2

\* the longest store the stratified runs enumerate
MaxStrata == 4

\* the highest page number and the largest page size get_preview is called with
MaxPage == 3

MaxPageSize == 2

-----------------------------------------------------------------------------
(* Generic helpers.                                                        *)

Min(a, b) == IF a <= b THEN a ELSE b

Max(a, b) == IF a >= b THEN a ELSE b

Range(s) == {s[i] : i \in 1..Len(s)}

\* Option<T>: None, or Some(v)
None == [some |-> FALSE]

Some(v) == [some |-> TRUE, val |-> v]

IsSome(o) == o.some

\* the ascending sequence of a finite set of naturals (sort_unstable on ids)
RECURSIVE SortedSeq(_)
SortedSeq(S) ==
  IF S = {} THEN <<>>
  ELSE LET m == CHOOSE x \in S : \A y \in S : x <= y
       IN <<m>> \o SortedSeq(S \ {m})

\* Vec<usize>::sort_unstable: the elements of a sequence in ascending order,
\* duplicates kept
RECURSIVE sort_unstable(_)
sort_unstable(s) ==
  IF s = <<>> THEN <<>>
  ELSE LET i == CHOOSE k \in 1..Len(s) : \A j \in 1..Len(s) : s[k] <= s[j]
       IN <<s[i]>> \o sort_unstable(SubSeq(s, 1, i - 1) \o SubSeq(s, i + 1, Len(s)))

IsSortedAsc(s) == \A i \in 1..(Len(s) - 1) : s[i] <= s[i + 1]

IsStrictlyAsc(s) == \A i \in 1..(Len(s) - 1) : s[i] < s[i + 1]

\* the range start..end-1 as a Vec ((start..end).collect())
RangeVec(start, end) == [i \in 1..Max(end - start, 0) |-> start + i - 1]

\* iter.take(n)
Take(s, n) == SubSeq(s, 1, Min(n, Len(s)))

\* all sequences over S of length at most n
SeqsUpTo(S, n) == UNION {[1..k -> S] : k \in 0..n}

RECURSIVE SumSeq(_)
SumSeq(s) == IF s = <<>> THEN 0 ELSE s[1] + SumSeq(Tail(s))

RECURSIVE Concat(_)
Concat(ss) == IF ss = <<>> THEN <<>> ELSE ss[1] \o Concat(Tail(ss))

-----------------------------------------------------------------------------
(* records.rs: record primitives.                                          *)

Whitespace == {" ", "\n"}

Digits == {"0", "1", "5", "9"}

Lower(c) ==
  CASE c = "A" -> "a"
    [] c = "B" -> "b"
    [] c = "C" -> "c"
    [] c = "Q" -> "q"
    [] c = "N" -> "n"
    [] OTHER -> c

IsAlphanumeric(c) ==
  c \in {"a", "b", "c", "d", "n", "q", "x", "y", "A", "B", "C", "N", "Q"} \cup Digits

\* str::to_lowercase
to_lowercase(t) == [i \in 1..Len(t) |-> Lower(t[i])]

\* str::trim().is_empty()
TrimIsEmpty(t) == \A i \in 1..Len(t) : t[i] \in Whitespace

\* str::contains
Contains(t, k) ==
  \E i \in 0..(Len(t) - Len(k)) : SubSeq(t, i + 1, i + Len(k)) = k

Alphabet ==
  {"a", "b", "c", "d", "n", "q", "x", "y", "A", "B", "C", "N", "Q",
   "0", "1", "5", "9", ".", " ", "\n", "\""}

\* str::split on a set of separator characters: the runs of other characters
\* between separators, empty runs included
RECURSIVE SplitOn(_, _, _)
SplitOn(t, seps, cur) ==
  IF t = <<>> THEN <<cur>>
  ELSE IF t[1] \in seps THEN <<cur>> \o SplitOn(Tail(t), seps, <<>>)
  ELSE SplitOn(Tail(t), seps, Append(cur, t[1]))

RECURSIVE SelectSeqLen(_, _)
SelectSeqLen(ss, minLen) ==
  IF ss = <<>> THEN <<>>
  ELSE IF Len(ss[1]) > minLen THEN <<ss[1]>> \o SelectSeqLen(Tail(ss), minLen)
  ELSE SelectSeqLen(Tail(ss), minLen)

\* str::split_whitespace: the non-empty runs of non-whitespace characters
split_whitespace(t) == SelectSeqLen(SplitOn(t, Whitespace, <<>>), 0)

\* [..].join(" ")
RECURSIVE JoinSpace(_)
JoinSpace(ss) ==
  IF ss = <<>> THEN <<>>
  ELSE IF Len(ss) = 1 THEN ss[1]
  ELSE ss[1] \o <<" ">> \o JoinSpace(Tail(ss))

text_length(t) == Len(t)

\* tokenize: split on non-alphanumeric characters, keep the tokens longer
\* than 2, lowercase them
tokenize(t) ==
  LET parts == SelectSeqLen(SplitOn(t, {c \in Alphabet : ~IsAlphanumeric(c)}, <<>>), 2)
  IN [i \in 1..Len(parts) |-> to_lowercase(parts[i])]

\* xxh3_64 of a token, as the set of its set bits.  The library hash is a
\* fixed function of the token; the model fixes it on the tokens of the pools.
xxh3_64(tok) ==
  CASE tok = <<"a", "b", "c">> -> {0, 1, 2, 16, 33, 52, 63}
    [] tok = <<"a", "b", "d">> -> {0, 1, 3, 16, 33, 52, 63}
    [] tok = <<"x", "y", "y">> -> {5, 20, 40, 53, 60}
    [] tok = <<"q", "q", "q">> -> {0, 1, 2, 17, 34, 50, 62}
    [] tok = <<"d", "d", "d">> -> {0, 1, 2, 3, 16, 17, 33, 34, 52, 63}
    [] tok = <<"b", "b", "b">> -> {0, 1, 2, 3, 16, 17, 33, 34, 50, 52, 63}
    [] OTHER -> {Len(tok) % 64}

Bits64 == 0..63

\* simhash: bit i of the output is set iff more tokens have bit i set than
\* clear (weights[i] > 0)
simhash(t) ==
  LET toks == tokenize(t)
      weight(i) ==
        Cardinality({k \in 1..Len(toks) : i \in xxh3_64(toks[k])})
        - Cardinality({k \in 1..Len(toks) : i \notin xxh3_64(toks[k])})
  IN {i \in Bits64 : weight(i) > 0}

\* hamming_distance: (a ^ b).count_ones()
hamming_distance(a, b) == Cardinality((a \ b) \cup (b \ a))

-----------------------------------------------------------------------------
(* JSON values and records (serde_json::Value).  A record is a function    *)
(* from the field names to values; the value of a missing key is Absent.   *)

Absent == [kind |-> "absent", text |-> <<>>]

Null == [kind |-> "null", text |-> <<>>]

Str(t) == [kind |-> "string", text |-> t]

\* a JSON number, held as its canonical JSON text
Num(t) == [kind |-> "number", text |-> t]

FieldNames == {"q", "a", "cat", "sc", "value"}

Rec(q, a, cat, sc) == [q |-> q, a |-> a, cat |-> cat, sc |-> sc, value |-> Absent]

\* Value::get(key)
Get(record, name) ==
  IF name \in DOMAIN record /\ record[name].kind # "absent"
  THEN Some(record[name]) ELSE None

\* String::to_lowercase on a field name
LowerName(name) == IF name = "Q" THEN "q" ELSE name

\* value_to_string: a string is itself, null is "", anything else its JSON text
value_to_string(v) ==
  CASE v.kind = "string" -> v.text
    [] v.kind = "null" -> <<>>
    [] OTHER -> v.text

\* extract_field_value: the mapped key, else its lowercase form
extract_field_value(record, field) ==
  IF ~IsSome(field) THEN None
  ELSE IF IsSome(Get(record, field.val)) THEN Get(record, field.val)
  ELSE Get(record, LowerName(field.val))

extract_text_value(record, field) ==
  LET v == extract_field_value(record, field)
  IN IF IsSome(v) THEN Some(value_to_string(v.val)) ELSE None

unwrap_or_default(o) == IF IsSome(o) THEN o.val ELSE <<>>

\* get_length_text
get_length_text(record, fm, scope) ==
  CASE scope = "output" -> unwrap_or_default(extract_text_value(record, fm.output))
    [] scope = "combined" ->
         unwrap_or_default(extract_text_value(record, fm.instruction))
         \o <<"\n">> \o unwrap_or_default(extract_text_value(record, fm.output))
    [] OTHER -> unwrap_or_default(extract_text_value(record, fm.instruction))

\* models.rs FieldMap
FieldMapOf(i, o, c, s) ==
  [instruction |-> i, output |-> o, code |-> None, category |-> c, score |-> s]

DefaultFieldMap == FieldMapOf(None, None, None, None)

FullFieldMap == FieldMapOf(Some("q"), Some("a"), Some("cat"), Some("sc"))

\* the instruction is mapped under a name whose lowercase form is the key
UpperFieldMap == FieldMapOf(Some("Q"), Some("a"), Some("cat"), Some("sc"))

-----------------------------------------------------------------------------
(* distill.rs: the distillation engine.                                    *)

DigitVal(c) ==
  CASE c = "0" -> 0
    [] c = "1" -> 1
    [] c = "5" -> 5
    [] c = "9" -> 9
    [] OTHER -> 0

\* f64::NAN among the scores, which are otherwise counted in tenths
NaN == -1

\* str::parse::<f64>().ok(), the value in tenths: "d" and "d.d" parse, "nan"
\* in any case parses to NaN, any other text of the alphabet does not
ParseF64(t) ==
  IF Len(t) = 1 /\ t[1] \in Digits THEN Some(10 * DigitVal(t[1]))
  ELSE IF Len(t) = 3 /\ t[1] \in Digits /\ t[2] = "." /\ t[3] \in Digits
       THEN Some(10 * DigitVal(t[1]) + DigitVal(t[3]))
  ELSE IF to_lowercase(t) = <<"n", "a", "n">> THEN Some(NaN)
  ELSE None

\* signature >> 52, as u16
BucketOf(signature) == {b - 52 : b \in {x \in signature : x >= 52}}

\* build_record_meta
build_record_meta(record, id, fm, strategy) ==
  LET scoreText == extract_text_value(record, fm.score)
      parsed == IF IsSome(scoreText) THEN ParseF64(scoreText.val) ELSE None
  IN [id |-> id,
      category |-> extract_text_value(record, fm.category),
      score |-> IF IsSome(parsed) THEN parsed.val ELSE 0,
      signature |-> IF strategy = "diversity"
                    THEN simhash(unwrap_or_default(extract_text_value(record, fm.instruction)))
                    ELSE {}]

\* StdRng::seed_from_u64: the generator is a deterministic function of the
\* seed (a small congruential generator stands for the library's stream)
seed_from_u64(seed) == seed % 251

\* one draw of an index below ubound: the value and the advanced generator
gen_index(rng, ubound) == [val |-> rng % ubound, rng |-> (rng * 37 + 11) % 251]

Swap(s, i, j) == [s EXCEPT ![i] = s[j], ![j] = s[i]]

\* SliceRandom::shuffle: for i from len-1 down to 1, swap(i, gen_index(i+1))
RECURSIVE ShuffleFrom(_, _, _)
ShuffleFrom(s, i, rng) ==
  IF i < 2 THEN [out |-> s, rng |-> rng]
  ELSE LET g == gen_index(rng, i)
       IN ShuffleFrom(Swap(s, i, g.val + 1), i - 1, g.rng)

shuffle(s, rng) == ShuffleFrom(s, Len(s), rng)

\* b.score.partial_cmp(&a.score).unwrap_or(Equal) = Less: a sorts before b.
\* NaN compares equal to every score.
ScoreBefore(a, b) == a.score # NaN /\ b.score # NaN /\ a.score > b.score

\* one insertion: m moves left past every element it sorts before
RECURSIVE InsertByScore(_, _)
InsertByScore(sorted, m) ==
  IF sorted # <<>> /\ ScoreBefore(m, sorted[Len(sorted)])
  THEN Append(InsertByScore(SubSeq(sorted, 1, Len(sorted) - 1), m), sorted[Len(sorted)])
  ELSE Append(sorted, m)

\* slice::sort_by(|a, b| b.score.partial_cmp(&a.score)): a stable sort by
\* descending score.  A slice of at most 20 elements is sorted by insertion,
\* left to right; the stores of the model never hold more.
RECURSIVE SortByScoreDesc(_)
SortByScoreDesc(ms) ==
  IF ms = <<>> THEN <<>>
  ELSE InsertByScore(SortByScoreDesc(SubSeq(ms, 1, Len(ms) - 1)), ms[Len(ms)])

\* the distinct keys of a sequence of metas, in order of first arrival
RECURSIVE KeysInArrivalOrder(_, _, _)
KeysInArrivalOrder(ms, key(_), seen) ==
  IF ms = <<>> THEN <<>>
  ELSE IF key(ms[1]) \in seen THEN KeysInArrivalOrder(Tail(ms), key, seen)
  ELSE <<key(ms[1])>> \o KeysInArrivalOrder(Tail(ms), key, seen \cup {key(ms[1])})

\* the members of a sequence of metas that have a given key, in arrival order
RECURSIVE WithKey(_, _, _)
WithKey(ms, key(_), k) ==
  IF ms = <<>> THEN <<>>
  ELSE IF key(ms[1]) = k THEN <<ms[1]>> \o WithKey(Tail(ms), key, k)
  ELSE WithKey(Tail(ms), key, k)

\* The iteration order of a HashMap.  std's HashMap is seeded per instance, so
\* the order is not a function of the keys: perm, a permutation of 1..n for
\* some n >= Len(keys), fixes one order (the keys by their rank in perm).
RECURSIVE HashOrder(_, _)
HashOrder(keys, perm) ==
  IF perm = <<>> THEN <<>>
  ELSE IF perm[1] <= Len(keys) THEN <<keys[perm[1]]>> \o HashOrder(keys, Tail(perm))
  ELSE HashOrder(keys, Tail(perm))

\* the permutations of 1..n, as sequences
Perms(n) == Permutations(1..n)

SignatureKey(meta) == BucketOf(meta.signature)

\* distill.rs 53-56: each bucket list is sorted by score and shuffled, in the
\* iteration order of the map, with the one generator
RECURSIVE ShuffleLists(_, _)
ShuffleLists(lists, rng) ==
  IF lists = <<>> THEN [out |-> <<>>, rng |-> rng]
  ELSE LET sh == shuffle(SortByScoreDesc(lists[1]), rng)
           rest == ShuffleLists(Tail(lists), sh.rng)
       IN [out |-> <<sh.out>> \o rest.out, rng |-> rest.rng]

\* distill.rs 62-78: the round-robin passes over the shuffled key order; lists
\* is indexed like order's values, k is the position in the pass
RECURSIVE RoundRobin(_, _, _, _, _, _)
RoundRobin(lists, order, k, selected, progressed, target) ==
  IF Len(selected) >= target THEN selected
  ELSE IF k > Len(order)
       THEN IF progressed THEN RoundRobin(lists, order, 1, selected, FALSE, target)
            ELSE selected
  ELSE LET key == order[k]
           list == lists[key]
       IN IF list = <<>>
          THEN RoundRobin(lists, order, k + 1, selected, progressed, target)
          ELSE RoundRobin([lists EXCEPT ![key] = SubSeq(list, 1, Len(list) - 1)],
                          order, k + 1, Append(selected, list[Len(list)].id),
                          TRUE, target)

Ids(ms) == [i \in 1..Len(ms) |-> ms[i].id]

\* the first target ids in arrival order, whatever their buckets
diversity_select_Arrival(metas, target, rng, perm) == Take(Ids(metas), target)

\* diversity_select; perm fixes the iteration order of the bucket map
diversity_select(metas, target, rng, perm) ==
  LET keys == HashOrder(KeysInArrivalOrder(metas, SignatureKey, {}), perm)
      lists == [i \in 1..Len(keys) |-> WithKey(metas, SignatureKey, keys[i])]
      shuffled == ShuffleLists(lists, rng)
      bucket_keys == shuffle([i \in 1..Len(keys) |-> i], shuffled.rng)
  IN RoundRobin(shuffled.out, bucket_keys.out, 1, <<>>, FALSE, target)

DefaultSeed == 42

\* apply_strategy
apply_strategy(metas, target, config, perm) ==
  LET seed == IF IsSome(config.random_seed) THEN config.random_seed.val ELSE DefaultSeed
      rng == seed_from_u64(seed)
      selected ==
        CASE config.strategy = "importance" -> Take(Ids(SortByScoreDesc(metas)), target)
          [] config.strategy = "random" -> Take(shuffle(Ids(metas), rng).out, target)
          [] OTHER -> diversity_select(metas, target, rng, perm)
  IN sort_unstable(selected)

\* f32::round of num/den for num >= 0: half away from zero
RoundDiv(num, den) == (2 * num + den) \div (2 * den)

\* the target size with target_percent read before target_count
TargetOf_PercentFirst(total, config) ==
  LET raw == IF IsSome(config.target_percent)
             THEN RoundDiv(config.target_percent.val * total, 100)
             ELSE IF IsSome(config.target_count) THEN config.target_count.val
             ELSE RoundDiv(total, 10)
  IN Max(1, Min(raw, total))

\* distill.rs 108-115: the target size, clamped to [1, total]
TargetOf(total, config) ==
  LET raw == IF IsSome(config.target_count) THEN config.target_count.val
             ELSE IF IsSome(config.target_percent)
                  THEN RoundDiv(config.target_percent.val * total, 100)
             ELSE RoundDiv(total, 10)
  IN Max(1, Min(raw, total))

CategoryKey(meta) ==
  IF IsSome(meta.category) THEN meta.category.val
  ELSE <<"u", "n", "c", "a", "t", "e", "g", "o", "r", "i", "z", "e", "d">>

\* slice::sort_by(|a, b| b.1.cmp(&a.1)): a stable sort by descending count
RECURSIVE SortByCountDesc(_)
SortByCountDesc(as) ==
  IF as = <<>> THEN <<>>
  ELSE LET i == CHOOSE k \in 1..Len(as) :
                  /\ \A j \in 1..Len(as) : as[k].count >= as[j].count
                  /\ \A j \in 1..(k - 1) : as[j].count < as[k].count
       IN <<as[i]>> \o SortByCountDesc(SubSeq(as, 1, i - 1) \o SubSeq(as, i + 1, Len(as)))

\* the allocations left as the rounding made them
TopUp_None(as, allocated, idx, target) == as

\* distill.rs 138-143: allocations are topped up in order, wrapping, until
\* they sum to the target
RECURSIVE TopUp(_, _, _, _)
TopUp(as, allocated, idx, target) ==
  IF allocated >= target THEN as
  ELSE TopUp([as EXCEPT ![idx + 1].alloc = @ + 1], allocated + 1,
             (idx + 1) % Len(as), target)

\* distill.rs 118-125: the keys of by_category, in the map's iteration order
CategoryNames(metas, catPerm) ==
  HashOrder(KeysInArrivalOrder(metas, CategoryKey, {}), catPerm)

\* distill.rs 127-134: a category's size and its rounded share of the target
AllocationOf(name, count, target, total) ==
  [name |-> name, count |-> count, alloc |-> RoundDiv(count * target, total)]

Allocations(metas, target, names) ==
  [i \in 1..Len(names) |->
     AllocationOf(names[i], Len(WithKey(metas, CategoryKey, names[i])), target, Len(metas))]

\* distill.rs 136-143: the allocations, largest category first, topped up
ToppedUp(allocations, target) ==
  TopUp(SortByCountDesc(allocations),
        SumSeq([i \in 1..Len(allocations) |-> allocations[i].alloc]), 0, target)

\* distill.rs 145-150: each category's part, capped at the category's size
PartOf(bucket, alloc, config, bucketPerm) ==
  apply_strategy(bucket, Min(alloc, Len(bucket)), config, bucketPerm)

\* the selection made over all categories at once, the shares ignored
Stratified_Unbalanced(metas, config, target, catPerm, bucketPerm) ==
  apply_strategy(metas, target, config, bucketPerm)

\* distill.rs 117-154: the stratified selection; catPerm fixes the iteration
\* order of by_category, bucketPerm that of the bucket maps
Stratified(metas, config, target, catPerm, bucketPerm) ==
  LET topped == ToppedUp(Allocations(metas, target, CategoryNames(metas, catPerm)), target)
  IN Take(sort_unstable(Concat([i \in 1..Len(topped) |->
                                  PartOf(WithKey(metas, CategoryKey, topped[i].name),
                                         topped[i].alloc, config, bucketPerm)])),
          target)

\* select_records
select_records(metas, config, catPerm, bucketPerm) ==
  IF Len(metas) = 0 THEN <<>>
  ELSE LET target == TargetOf(Len(metas), config)
       IN IF config.preserve_category_balance
          THEN Stratified(metas, config, target, catPerm, bucketPerm)
          ELSE apply_strategy(metas, target, config, bucketPerm)

-----------------------------------------------------------------------------
(* io.rs: ingestion.                                                       *)

\* a top-level value read from the source: an object, or a scalar
ObjectValue(rec) == [object |-> TRUE, rec |-> rec, scalar |-> Null]

ScalarValue(v) == [object |-> FALSE, rec |-> Rec(Absent, Absent, Absent, Absent), scalar |-> v]

\* normalize_record: an object passes through, anything else is wrapped as
\* {"value": v}
normalize_record(value) ==
  IF value.object THEN value.rec
  ELSE [value.rec EXCEPT !.value = value.scalar]

\* the keys of a record (map.keys()), in the map's sorted order
KeyOrder == <<"a", "cat", "q", "sc", "value">>

KeyText(name) ==
  CASE name = "a" -> <<"a">>
    [] name = "cat" -> <<"c", "a", "t">>
    [] name = "q" -> <<"q">>
    [] name = "sc" -> <<"s", "c">>
    [] OTHER -> <<"v", "a", "l", "u", "e">>

Keys(record) == {name \in DOMAIN record : record[name].kind # "absent"}

\* the JSON escape of a string's characters: a quote and a line feed are
\* written as two characters
RECURSIVE Escape(_)
Escape(t) ==
  IF t = <<>> THEN <<>>
  ELSE (CASE t[1] = "\"" -> <<"\\", "\"">>
          [] t[1] = "\n" -> <<"\\", "n">>
          [] OTHER -> <<t[1]>>) \o Escape(Tail(t))

SerializeValue(v) ==
  CASE v.kind = "string" -> <<"\"">> \o Escape(v.text) \o <<"\"">>
    [] v.kind = "null" -> <<"n", "u", "l", "l">>
    [] OTHER -> v.text

RECURSIVE SerializeMembers(_, _, _)
SerializeMembers(record, names, first) ==
  IF names = <<>> THEN <<>>
  ELSE IF names[1] \notin Keys(record) THEN SerializeMembers(record, Tail(names), first)
  ELSE (IF first THEN <<>> ELSE <<",">>)
       \o <<"\"">> \o KeyText(names[1]) \o <<"\"", ":">>
       \o SerializeValue(record[names[1]])
       \o SerializeMembers(record, Tail(names), FALSE)

\* serde_json::to_vec: the compact JSON text of a record
to_vec(record) == <<"{">> \o SerializeMembers(record, KeyOrder, TRUE) \o <<"}">>

\* the ingestion worker's state as it starts (io.rs 89-100)
NewIngest(source) ==
  [source |-> source, pos |-> 0, offsets |-> <<>>, fields |-> {}, offset |-> 0,
   count |-> 0, file |-> <<>>, records |-> <<>>]

\* write_record with the offset recorded after the line is written
write_record_OffsetAfter(w, value) ==
  LET record == normalize_record(value)
      line == to_vec(record)
  IN [w EXCEPT !.fields = @ \cup Keys(record),
               !.offsets = Append(@, w.offset + Len(line) + 1),
               !.file = @ \o line \o <<"\n">>,
               !.records = Append(@, record),
               !.offset = @ + Len(line) + 1,
               !.count = @ + 1,
               !.pos = @ + 1]

\* write_record (io.rs 102-122) on one emitted value, the cancel flag clear:
\* the offset is recorded before the line and its line feed are written
write_record(w, value) ==
  LET record == normalize_record(value)
      line == to_vec(record)
  IN [w EXCEPT !.fields = @ \cup Keys(record),
               !.offsets = Append(@, w.offset),
               !.file = @ \o line \o <<"\n">>,
               !.records = Append(@, record),
               !.offset = @ + Len(line) + 1,
               !.count = @ + 1,
               !.pos = @ + 1]

\* the DatasetStore ingest_dataset returns (io.rs 172-181); records is the
\* content of the store file, line by line, as the later passes parse it
StoreOf(w) ==
  [id |-> w.source.id, offsets |-> w.offsets, fields |-> w.fields,
   record_count |-> w.count, records |-> w.records]

\* ingest_dataset run to its end on a source of well-formed values
RECURSIVE IngestAll(_)
IngestAll(w) ==
  IF w.pos >= Len(w.source.items) THEN w
  ELSE IngestAll(write_record(w, w.source.items[w.pos + 1].value))

\* a source file: its items are the values its lines (rows, array elements)
\* decode to; an item that is not ok is a malformed line
Item(value) == [ok |-> TRUE, value |-> value]

BadItem == [ok |-> FALSE, value |-> ScalarValue(Null)]

SourceOf(id, items) == [id |-> id, items |-> items]

-----------------------------------------------------------------------------
(* filters.rs: the filter engine.                                          *)

\* models.rs FilterConfig::default
DefaultFilters ==
  [require_fields |-> <<>>, min_length |-> None, max_length |-> None,
   include_keywords |-> <<>>, exclude_keywords |-> <<>>,
   category_field |-> None, categories |-> <<>>,
   dedupe_exact |-> TRUE, dedupe_fuzzy |-> FALSE,
   length_scope |-> "instruction", keyword_case_sensitive |-> FALSE]

\* filters.rs 21-29: the effective required fields
RequiredFields(f, fm) ==
  IF f.require_fields # <<>> THEN f.require_fields
  ELSE (IF IsSome(fm.instruction) THEN <<fm.instruction.val>> ELSE <<>>)
       \o (IF IsSome(fm.output) THEN <<fm.output.val>> ELSE <<>>)

\* filters.rs 31-48: keywords are lowercased unless the match is case sensitive
Keywords(f, list) ==
  IF f.keyword_case_sensitive THEN list
  ELSE [i \in 1..Len(list) |-> to_lowercase(list[i])]

\* filters.rs 78-96: presence of every required field
Missing(record, f, fm) ==
  \E i \in 1..Len(RequiredFields(f, fm)) :
    LET value == Get(record, RequiredFields(f, fm)[i])
    IN \/ ~IsSome(value)
       \/ value.val.kind = "null"
       \/ value.val.kind = "string" /\ TrimIsEmpty(value.val.text)

\* filters.rs 98-109: the length bounds
LengthOk(record, f, fm) ==
  LET length == text_length(get_length_text(record, fm, f.length_scope))
  IN /\ IsSome(f.min_length) => length >= f.min_length.val
     /\ IsSome(f.max_length) => length <= f.max_length.val

\* filters.rs 111-128: every include keyword, no exclude keyword
KeywordsOk(record, f, fm) ==
  LET length_text == get_length_text(record, fm, f.length_scope)
      keyword_text == IF f.keyword_case_sensitive THEN length_text
                      ELSE to_lowercase(length_text)
      include == Keywords(f, f.include_keywords)
      exclude == Keywords(f, f.exclude_keywords)
  IN /\ \A i \in 1..Len(include) : Contains(keyword_text, include[i])
     /\ ~\E i \in 1..Len(exclude) : Contains(keyword_text, exclude[i])

\* filters.rs 50-58, 130-140: category membership
CategoryOk(record, f, fm) ==
  LET category_field == IF IsSome(f.category_field) THEN f.category_field ELSE fm.category
      category_filter == {to_lowercase(f.categories[i]) : i \in 1..Len(f.categories)}
      value == Get(record, category_field.val)
      category_value == IF IsSome(value) THEN to_lowercase(value_to_string(value.val))
                        ELSE <<>>
  IN (IsSome(category_field) /\ category_filter # {}) => category_value \in category_filter

\* predicates 1-4 of the chain, in the order the loop applies them
PassesPredicates(record, f, fm) ==
  /\ ~Missing(record, f, fm)
  /\ LengthOk(record, f, fm)
  /\ KeywordsOk(record, f, fm)
  /\ CategoryOk(record, f, fm)

InstructionText(record, fm) == unwrap_or_default(extract_text_value(record, fm.instruction))

\* filters.rs 144-148: whitespace-collapsed, lowercased
Normalized(t) == to_lowercase(JoinSpace(split_whitespace(t)))

\* filters.rs 158-163: the four 16-bit segments of a hash, low to high
Segment(hash, j) == {b - 16 * j : b \in {x \in hash : 16 * j <= x /\ x < 16 * j + 16}}

Segments(hash) == [j \in 1..4 |-> Segment(hash, j - 1)]

\* the lookup under the lowest segment alone
FuzzyDuplicate_LowSegment(fuzzy_buckets, hash) ==
  /\ Segments(hash)[1] \in DOMAIN fuzzy_buckets
  /\ \E k \in 1..Len(fuzzy_buckets[Segments(hash)[1]]) :
       hamming_distance(fuzzy_buckets[Segments(hash)[1]][k], hash) <= 3

\* filters.rs 164-174: some hash indexed under one of the segments is within
\* distance 3
FuzzyDuplicate(fuzzy_buckets, hash) ==
  \E j \in 1..4 :
    /\ Segments(hash)[j] \in DOMAIN fuzzy_buckets
    /\ \E k \in 1..Len(fuzzy_buckets[Segments(hash)[j]]) :
         hamming_distance(fuzzy_buckets[Segments(hash)[j]][k], hash) <= 3

\* HashMap::entry(key).or_default().push(hash)
PushEntry(m, key, hash) ==
  [x \in DOMAIN m \cup {key} |->
     IF x = key THEN (IF key \in DOMAIN m THEN Append(m[key], hash) ELSE <<hash>>)
     ELSE m[x]]

\* filters.rs 179-181: the hash is indexed under each of its four segments
RECURSIVE InsertSegments(_, _, _)
InsertSegments(m, hash, j) ==
  IF j > 4 THEN m
  ELSE InsertSegments(PushEntry(m, Segments(hash)[j], hash), hash, j + 1)

EmptyMap == [x \in {} |-> <<>>]

\* the filter worker's state as it starts (filters.rs 60-66)
NewFilter(store, f, fm) ==
  [store |-> store, filters |-> f, field_map |-> fm, idx |-> 0,
   exact_seen |-> {}, fuzzy_buckets |-> EmptyMap,
   filtered_ids |-> <<>>, duplicates_removed |-> 0, progress |-> <<>>]

\* filters.rs 185: the number of lines between two progress reports
ProgressEvery == 1000

\* filters.rs 184-187, reached by a kept record only: the id is pushed and,
\* on a line whose index is a multiple of ProgressEvery, on_progress called
\* with the index and the record count; progress lists the calls made
PushKept(w, idx) ==
  [w EXCEPT !.filtered_ids = Append(@, idx),
            !.progress = IF idx % ProgressEvery = 0
                         THEN Append(@, [current |-> idx,
                                         total |-> w.store.record_count])
                         ELSE @]

\* exact dedup that takes an empty instruction text for a text like any other
ExactDuplicate_EmptyToo(w, record) ==
  /\ w.filters.dedupe_exact
  /\ \E i \in Range(w.filtered_ids) :
       Normalized(InstructionText(w.store.records[i + 1], w.field_map))
         = Normalized(InstructionText(record, w.field_map))

\* filters.rs 142-153: the record is an exact duplicate of a kept one
ExactDuplicate(w, record) ==
  /\ w.filters.dedupe_exact
  /\ InstructionText(record, w.field_map) # <<>>
  /\ Normalized(InstructionText(record, w.field_map)) \in w.exact_seen

\* the worker after the exact-dedup step has let the record by
AfterExact(w, record) ==
  IF w.filters.dedupe_exact /\ InstructionText(record, w.field_map) # <<>>
  THEN [w EXCEPT !.exact_seen = @ \cup {Normalized(InstructionText(record, w.field_map))}]
  ELSE w

FuzzyApplies(w, record) ==
  w.filters.dedupe_fuzzy /\ InstructionText(record, w.field_map) # <<>>

\* FilterRecord with a record that fails predicates 1-4 counted as a duplicate
FilterRecord_CountRejects(w) ==
  LET record == w.store.records[w.idx + 1]
      next == [w EXCEPT !.idx = @ + 1]
      hash == simhash(InstructionText(record, w.field_map))
  IN IF ~PassesPredicates(record, w.filters, w.field_map)
     THEN [next EXCEPT !.duplicates_removed = @ + 1]
     ELSE IF ExactDuplicate(w, record)
          THEN [next EXCEPT !.duplicates_removed = @ + 1]
     ELSE IF FuzzyApplies(w, record)
             /\ FuzzyDuplicate(w.fuzzy_buckets, hash)
          THEN [AfterExact(next, record) EXCEPT !.duplicates_removed = @ + 1]
     ELSE IF FuzzyApplies(w, record)
          THEN PushKept([AfterExact(next, record) EXCEPT
                           !.fuzzy_buckets = InsertSegments(@, hash, 1)],
                        w.idx)
     ELSE PushKept(AfterExact(next, record), w.idx)

\* one iteration of the loop (filters.rs 68-188) on line idx, the cancel flag
\* clear.  A store file holds no blank line: every line is a JSON object.
FilterRecord(w) ==
  LET record == w.store.records[w.idx + 1]
      next == [w EXCEPT !.idx = @ + 1]
      hash == simhash(InstructionText(record, w.field_map))
  IN IF ~PassesPredicates(record, w.filters, w.field_map) THEN next
     ELSE IF ExactDuplicate(w, record)
          THEN [next EXCEPT !.duplicates_removed = @ + 1]
     ELSE IF FuzzyApplies(w, record)
             /\ FuzzyDuplicate(w.fuzzy_buckets, hash)
          THEN [AfterExact(next, record) EXCEPT !.duplicates_removed = @ + 1]
     ELSE IF FuzzyApplies(w, record)
          THEN PushKept([AfterExact(next, record) EXCEPT
                           !.fuzzy_buckets = InsertSegments(@, hash, 1)],
                        w.idx)
     ELSE PushKept(AfterExact(next, record), w.idx)

\* FilterSummary (filters.rs 190-194)
FilterSummaryOf(w) ==
  [total_count |-> w.store.record_count,
   filtered_count |-> Len(w.filtered_ids),
   duplicates_removed |-> w.duplicates_removed]

-----------------------------------------------------------------------------
(* The inputs the commands are called with.                                *)

T_abc == <<"a", "b", "c">>

R1 == Rec(Str(<<"a", "b", "c", " ", "a", "b", "d">>), Str(<<"x">>), Str(<<"A">>), Str(<<"0", ".", "9">>))

\* R1's instruction in another case and spacing: an exact duplicate of R1
R2 == Rec(Str(<<"A", "B", "C", " ", " ", "a", "b", "d">>), Str(<<"y">>), Str(<<"B">>), Str(<<"0", ".", "1">>))

\* one token of R1's two: a near duplicate of R1 (SimHash distance 1)
R3 == Rec(Str(T_abc), Str(<<"y">>), Str(<<"B">>), Str(<<"0", ".", "1">>))

\* no category, a score that does not parse
R4 == Rec(Str(<<"x", "y", "y">>), Str(<<"x", "\n", "\"">>), Absent, Str(<<"x">>))

\* a whitespace-only instruction
R5 == Rec(Str(<<" ">>), Str(<<"x">>), Str(<<"A">>), Num(<<"1">>))

\* a null instruction and no output
R6 == Rec(Null, Absent, Str(<<"a">>), Absent)

\* an empty instruction
R7 == Rec(Str(<<>>), Str(<<"x", "y", "y">>), Str(<<"A">>), Str(<<"0", ".", "5">>))

\* an instruction whose SimHash is 3 bits from R3's, one bit in each of three
\* segments
R10 == Rec(Str(<<"d", "d", "d">>), Str(<<"x">>), Str(<<"B">>), Str(<<"0", ".", "1">>))

\* an instruction whose SimHash is 4 bits from R3's, one bit in each segment,
\* and 1 bit from R10's
R11 == Rec(Str(<<"b", "b", "b">>), Str(<<"x">>), Str(<<"B">>), Str(<<"0", ".", "1">>))

\* a score that parses to NaN
R9 == Rec(Str(<<"x", "y", "y">>), Str(<<"x">>), Str(<<"A">>), Str(<<"N", "a", "N">>))

\* category A again, in a bucket of its own
R8 == Rec(Str(<<"q", "q", "q">>), Str(<<"x">>), Str(<<"A">>), Str(<<"0", ".", "5">>))

\* models.rs DistillConfig
DistillConfigOf(count, percent, strategy, seed, balance) ==
  [target_count |-> count, target_percent |-> percent, strategy |-> strategy,
   random_seed |-> seed, preserve_category_balance |-> balance]

\* models.rs DistillConfig::default
DefaultDistill == DistillConfigOf(None, Some(10), "diversity", None, FALSE)

\* the DatasetStore ingestion builds from a sequence of records
StoreOfRecords(id, records) ==
  StoreOf(IngestAll(NewIngest(SourceOf(id, [i \in 1..Len(records) |-> Item(ObjectValue(records[i]))]))))

NoStore == StoreOfRecords("none", <<>>)

\* the sorted id lists over 0..n-1
SortedIdLists(n) == {SortedSeq(S) : S \in SUBSET (0..(n - 1))}

-----------------------------------------------------------------------------
(* The commands (src-tauri/src/commands).  A long-running command is a     *)
(* sequence of steps: its entry (the flag is cleared, the snapshot taken), *)
(* the worker's loop, one step a line, and the commit under the write      *)
(* lock.  Its slot is idle when no call is in flight.                      *)

NoSummary == [total_count |-> 0]

Reply(cmd, outcome, args, summary) ==
  [cmd |-> cmd, outcome |-> outcome, args |-> args, summary |-> summary]

Err(cmd, outcome) == Reply(cmd, outcome, <<>>, NoSummary)

IdleImport == [pc |-> "idle", w |-> NewIngest(SourceOf("none", <<>>))]

IdleFilter == [pc |-> "idle", filters |-> DefaultFilters, field_map |-> DefaultFieldMap,
               w |-> NewFilter(NoStore, DefaultFilters, DefaultFieldMap)]

IdleDistill == [pc |-> "idle", config |-> DefaultDistill, field_map |-> DefaultFieldMap,
                store |-> NoStore, base |-> None, idx |-> 0, metas |-> <<>>]

IdleExport == [pc |-> "idle", view |-> "raw", store |-> NoStore, ids |-> <<>>, idx |-> 0]

\* state.rs AppState::default
Init ==
  /\ dataset = None
  /\ field_map = DefaultFieldMap
  /\ filters = DefaultFilters
  /\ distill_config = DefaultDistill
  /\ filtered_ids = None
  /\ selected_ids = None
  /\ removed_ids = None
  /\ manual_include = {}
  /\ manual_exclude = {}
  /\ cancel = FALSE
  /\ importOp = IdleImport
  /\ filterOp = IdleFilter
  /\ distillOp = IdleDistill
  /\ exportOp = IdleExport
  /\ last = Err("none", "Ok")

(* import_dataset (commands/dataset.rs 78-131) *)

\* dataset.rs 84-100: the flag is cleared and the ingestion worker spawned
ImportBegin(source) ==
  /\ importOp.pc = "idle"
  /\ cancel' = FALSE
  /\ importOp' = [pc |-> "run", w |-> NewIngest(source)]
  /\ UNCHANGED <<published, filterOp, distillOp, exportOp, last>>

\* ImportRecord with a canceled run publishing the store written so far
ImportRecord_PublishPartial ==
  /\ importOp.pc = "run"
  /\ importOp.w.pos < Len(importOp.w.source.items)
  /\ LET item == importOp.w.source.items[importOp.w.pos + 1]
     IN IF ~item.ok
        THEN /\ importOp' = IdleImport
             /\ last' = Err("import_dataset", "ParseError")
             /\ dataset' = dataset
        ELSE IF cancel
        THEN /\ importOp' = IdleImport
             /\ last' = Err("import_dataset", "Canceled")
             /\ dataset' = Some(StoreOf(importOp.w))
        ELSE /\ importOp' = [importOp EXCEPT !.w = write_record(@, item.value)]
             /\ last' = last
             /\ dataset' = dataset
  /\ UNCHANGED <<field_map, filters, distill_config, filtered_ids, selected_ids,
                 removed_ids, manual_include, manual_exclude>>
  /\ UNCHANGED <<cancel, filterOp, distillOp, exportOp>>

\* one value of the source (io.rs 159-163 and 102-122): a malformed line ends
\* the run with a parse error; write_record polls the flag, then writes
ImportRecord ==
  /\ importOp.pc = "run"
  /\ importOp.w.pos < Len(importOp.w.source.items)
  /\ LET item == importOp.w.source.items[importOp.w.pos + 1]
     IN IF ~item.ok
        THEN /\ importOp' = IdleImport
             /\ last' = Err("import_dataset", "ParseError")
        ELSE IF cancel
        THEN /\ importOp' = IdleImport
             /\ last' = Err("import_dataset", "Canceled")
        ELSE /\ importOp' = [importOp EXCEPT !.w = write_record(@, item.value)]
             /\ last' = last
  /\ UNCHANGED <<published, cancel, filterOp, distillOp, exportOp>>

\* dataset.rs 122-130: the worker has returned the store; it is published and
\* every later-stage result dropped
ImportCommit ==
  /\ importOp.pc = "run"
  /\ importOp.w.pos = Len(importOp.w.source.items)
  /\ dataset' = Some(StoreOf(importOp.w))
  /\ filtered_ids' = None
  /\ selected_ids' = None
  /\ removed_ids' = None
  /\ manual_include' = {}
  /\ manual_exclude' = {}
  /\ importOp' = IdleImport
  /\ last' = Reply("import_dataset", "Ok", <<>>, [total_count |-> importOp.w.count])
  /\ UNCHANGED <<field_map, filters, distill_config, cancel, filterOp, distillOp, exportOp>>

(* apply_filters (commands/filters.rs 12-60) *)

\* filters.rs 18-29: the flag is cleared and the store handle cloned under the
\* read lock; without a dataset the call fails
FilterBegin(f, fm) ==
  /\ filterOp.pc = "idle"
  /\ cancel' = FALSE
  /\ IF IsSome(dataset)
     THEN /\ filterOp' = [pc |-> "run", filters |-> f, field_map |-> fm,
                          w |-> NewFilter(dataset.val, f, fm)]
          /\ last' = last
     ELSE /\ filterOp' = filterOp
          /\ last' = Err("apply_filters", "NoDataset")
  /\ UNCHANGED <<published, importOp, distillOp, exportOp>>

\* one line of the store file (backend filters.rs 68-188): the flag is polled,
\* the line read (the read may fail), the record run through the chain
FilterLine(ioError) ==
  /\ filterOp.pc = "run"
  /\ filterOp.w.idx < Len(filterOp.w.store.records)
  /\ IF cancel
     THEN /\ filterOp' = IdleFilter
          /\ last' = Err("apply_filters", "Canceled")
     ELSE IF ioError
     THEN /\ filterOp' = IdleFilter
          /\ last' = Err("apply_filters", "IoError")
     ELSE /\ filterOp' = [filterOp EXCEPT !.w = FilterRecord(@)]
          /\ last' = last
  /\ UNCHANGED <<published, cancel, importOp, distillOp, exportOp>>

\* FilterCommit with the distillation results left in place
FilterCommit_KeepsSelection ==
  /\ filterOp.pc = "run"
  /\ filterOp.w.idx = Len(filterOp.w.store.records)
  /\ filters' = filterOp.filters
  /\ field_map' = filterOp.field_map
  /\ filtered_ids' = Some(filterOp.w.filtered_ids)
  /\ manual_include' = {}
  /\ manual_exclude' = {}
  /\ filterOp' = IdleFilter
  /\ last' = Reply("apply_filters", "Ok", <<>>, FilterSummaryOf(filterOp.w))
  /\ UNCHANGED <<dataset, distill_config, selected_ids, removed_ids, cancel,
                 importOp, distillOp, exportOp>>

\* filters.rs 50-59: the result is published and the distillation results
\* dropped
FilterCommit ==
  /\ filterOp.pc = "run"
  /\ filterOp.w.idx = Len(filterOp.w.store.records)
  /\ filters' = filterOp.filters
  /\ field_map' = filterOp.field_map
  /\ filtered_ids' = Some(filterOp.w.filtered_ids)
  /\ selected_ids' = None
  /\ removed_ids' = None
  /\ manual_include' = {}
  /\ manual_exclude' = {}
  /\ filterOp' = IdleFilter
  /\ last' = Reply("apply_filters", "Ok", <<>>, FilterSummaryOf(filterOp.w))
  /\ UNCHANGED <<dataset, distill_config, cancel, importOp, distillOp, exportOp>>

(* preview_distillation (commands/distill.rs 12-71) *)
\* preview_distillation storing the configuration before it looks for the
\* dataset
DistillBegin_StoresConfigFirst(config, fm) ==
  /\ distillOp.pc = "idle"
  /\ cancel' = FALSE
  /\ distill_config' = config
  /\ IF IsSome(dataset)
     THEN /\ distillOp' = [IdleDistill EXCEPT !.pc = "snap", !.config = config,
                             !.field_map = fm, !.store = dataset.val]
          /\ last' = last
     ELSE /\ distillOp' = distillOp
          /\ last' = Err("preview_distillation", "NoDataset")
  /\ UNCHANGED <<dataset, field_map, filters, filtered_ids, selected_ids, removed_ids,
                 manual_include, manual_exclude, importOp, filterOp, exportOp>>

\* distill.rs 19-30: the flag is cleared and the store handle cloned under the
\* read lock; without a dataset the call fails
DistillBegin(config, fm) ==
  /\ distillOp.pc = "idle"
  /\ cancel' = FALSE
  /\ IF IsSome(dataset)
     THEN /\ distillOp' = [IdleDistill EXCEPT !.pc = "snap", !.config = config,
                             !.field_map = fm, !.store = dataset.val]
          /\ last' = last
     ELSE /\ distillOp' = distillOp
          /\ last' = Err("preview_distillation", "NoDataset")
  /\ UNCHANGED <<published, importOp, filterOp, exportOp>>

\* distill.rs 31-34: filtered_ids is cloned under a second read lock
DistillSnapshot ==
  /\ distillOp.pc = "snap"
  /\ distillOp' = [distillOp EXCEPT !.pc = "run", !.base = filtered_ids]
  /\ UNCHANGED <<published, cancel, importOp, filterOp, exportOp, last>>

\* backend distill.rs 168-172: the base ids, all ids without a filter result
BaseIds(store, base) ==
  IF IsSome(base) THEN base.val ELSE RangeVec(0, store.record_count)

\* one line of the store file (backend distill.rs 178-191): the flag is
\* polled; a line outside the base set is skipped, or else read (the read may
\* fail) and its meta collected
DistillLine(ioError) ==
  /\ distillOp.pc = "run"
  /\ distillOp.idx < Len(distillOp.store.records)
  /\ IF cancel
     THEN /\ distillOp' = IdleDistill
          /\ last' = Err("preview_distillation", "Canceled")
     ELSE IF distillOp.idx \notin Range(BaseIds(distillOp.store, distillOp.base))
     THEN /\ distillOp' = [distillOp EXCEPT !.idx = @ + 1]
          /\ last' = last
     ELSE IF ioError
     THEN /\ distillOp' = IdleDistill
          /\ last' = Err("preview_distillation", "IoError")
     ELSE /\ distillOp' =
               [distillOp EXCEPT
                  !.idx = @ + 1,
                  !.metas = Append(@, build_record_meta(
                               distillOp.store.records[distillOp.idx + 1],
                               distillOp.idx, distillOp.field_map,
                               distillOp.config.strategy))]
          /\ last' = last
  /\ UNCHANGED <<published, cancel, importOp, filterOp, exportOp>>

\* the sequence without the members of a set (iter().filter(..))
RECURSIVE Without(_, _)
Without(s, S) ==
  IF s = <<>> THEN <<>>
  ELSE IF s[1] \in S THEN Without(Tail(s), S)
  ELSE <<s[1]>> \o Without(Tail(s), S)

\* backend distill.rs 203-208: the summary and the returned triple
ResultOf(selected, removed, base_ids) ==
  [selected |-> selected, removed |-> removed,
   summary |-> [total_count |-> Len(base_ids),
                selected_count |-> Len(selected),
                removed_count |-> Len(removed)]]

\* backend distill.rs 195-201: the base ids that are not selected, sorted
RemovedOf(selected, base_ids) ==
  ResultOf(selected, sort_unstable(Without(base_ids, Range(selected))), base_ids)

\* DistillResult with the selected ids left among the removed ones
DistillResult_KeepSelected(metas, base_ids, config, catPerm, bucketPerm) ==
  ResultOf(sort_unstable(select_records(metas, config, catPerm, bucketPerm)),
           sort_unstable(base_ids), base_ids)

\* backend distill.rs 193-208: the selection, the removed ids and the summary
DistillResult(metas, base_ids, config, catPerm, bucketPerm) ==
  RemovedOf(sort_unstable(select_records(metas, config, catPerm, bucketPerm)), base_ids)

NumKeys(metas, key(_)) == Cardinality({key(metas[i]) : i \in 1..Len(metas)})

\* distill.rs 62-68: the write lock is taken and the result r stored
PublishPreview(r) ==
  /\ distill_config' = distillOp.config
  /\ field_map' = distillOp.field_map
  /\ selected_ids' = Some(r.selected)
  /\ removed_ids' = Some(r.removed)
  /\ manual_include' = {}
  /\ manual_exclude' = {}
  /\ last' = Reply("preview_distillation", "Ok", <<>>, r.summary)

\* distill.rs 62-70: the worker has returned; the configuration and the two
\* lists are published.  The iteration orders of the worker's hash maps are
\* not determined by its inputs.
DistillCommit ==
  /\ distillOp.pc = "run"
  /\ distillOp.idx = Len(distillOp.store.records)
  /\ \E catPerm \in Perms(IF distillOp.config.preserve_category_balance
                          THEN NumKeys(distillOp.metas, CategoryKey) ELSE 0),
        bucketPerm \in Perms(IF distillOp.config.strategy \notin {"importance", "random"}
                             THEN NumKeys(distillOp.metas, SignatureKey) ELSE 0) :
       PublishPreview(DistillResult(distillOp.metas,
                                    BaseIds(distillOp.store, distillOp.base),
                                    distillOp.config, catPerm, bucketPerm))
  /\ distillOp' = IdleDistill
  /\ UNCHANGED <<dataset, filters, filtered_ids, cancel, importOp, filterOp, exportOp>>

(* export_dataset (commands/dataset.rs 170-223, backend io.rs 204-256) *)

\* dataset.rs 178-189: the flag is cleared and the store handle cloned under
\* the read lock; without a dataset the call fails
ExportBegin(view) ==
  /\ exportOp.pc = "idle"
  /\ cancel' = FALSE
  /\ IF IsSome(dataset)
     THEN /\ exportOp' = [IdleExport EXCEPT !.pc = "snap", !.view = view,
                            !.store = dataset.val]
          /\ last' = last
     ELSE /\ exportOp' = exportOp
          /\ last' = Err("export_dataset", "NoDataset")
  /\ UNCHANGED <<published, importOp, filterOp, distillOp>>

OrEmpty(o) == IF IsSome(o) THEN o.val ELSE <<>>

\* dataset.rs 190-198: the ids of the view, an absent list being empty
ExportIds(view, store, filtered, selected, removed) ==
  CASE view = "removed" -> OrEmpty(removed)
    [] view = "selected" -> OrEmpty(selected)
    [] view = "filtered" -> OrEmpty(filtered)
    [] OTHER -> RangeVec(0, store.record_count)

\* dataset.rs 190-198: the id list is cloned under a second read lock
ExportSnapshot ==
  /\ exportOp.pc = "snap"
  /\ exportOp' = [exportOp EXCEPT
                    !.pc = "entry",
                    !.ids = ExportIds(exportOp.view, exportOp.store,
                                      filtered_ids, selected_ids, removed_ids)]
  /\ UNCHANGED <<published, cancel, importOp, filterOp, distillOp, last>>

\* io.rs 212-214: the worker polls the flag once, as it starts
ExportEntry ==
  /\ exportOp.pc = "entry"
  /\ IF cancel
     THEN /\ exportOp' = IdleExport
          /\ last' = Err("export_dataset", "Canceled")
     ELSE /\ exportOp' = [exportOp EXCEPT !.pc = "write"]
          /\ last' = last
  /\ UNCHANGED <<published, cancel, importOp, filterOp, distillOp>>

\* io.rs 220-234 and 239-251: one id is read from the store and written; an id
\* beyond the offsets is out of range (io.rs 186-188)
ExportWrite ==
  /\ exportOp.pc = "write"
  /\ exportOp.idx < Len(exportOp.ids)
  /\ IF exportOp.ids[exportOp.idx + 1] >= Len(exportOp.store.offsets)
     THEN /\ exportOp' = IdleExport
          /\ last' = Err("export_dataset", "OutOfRange")
     ELSE /\ exportOp' = [exportOp EXCEPT !.idx = @ + 1]
          /\ last' = last
  /\ UNCHANGED <<published, cancel, importOp, filterOp, distillOp>>

\* io.rs 235, 252-255: the file is complete
ExportDone ==
  /\ exportOp.pc = "write"
  /\ exportOp.idx = Len(exportOp.ids)
  /\ exportOp' = IdleExport
  /\ last' = Reply("export_dataset", "Ok", <<>>, [total_count |-> Len(exportOp.ids)])
  /\ UNCHANGED <<published, cancel, importOp, filterOp, distillOp>>

(* update_manual_selection (commands/distill.rs 73-117) *)

ManualChange(id, include) == [id |-> id, include |-> include]

\* ApplyChanges with the changes applied last to first
RECURSIVE ApplyChanges_Reversed(_, _, _)
ApplyChanges_Reversed(changes, selected_set, removed_set) ==
  IF changes = <<>> THEN [selected |-> selected_set, removed |-> removed_set]
  ELSE LET n == Len(changes)
           rest == SubSeq(changes, 1, n - 1)
       IN IF changes[n].include
          THEN ApplyChanges_Reversed(rest, selected_set \cup {changes[n].id},
                                     removed_set \ {changes[n].id})
          ELSE ApplyChanges_Reversed(rest, selected_set \ {changes[n].id},
                                     removed_set \cup {changes[n].id})

\* distill.rs 91-99: the changes are applied to the two sets in list order
RECURSIVE ApplyChanges(_, _, _)
ApplyChanges(changes, selected_set, removed_set) ==
  IF changes = <<>> THEN [selected |-> selected_set, removed |-> removed_set]
  ELSE IF changes[1].include
       THEN ApplyChanges(Tail(changes), selected_set \cup {changes[1].id},
                         removed_set \ {changes[1].id})
       ELSE ApplyChanges(Tail(changes), selected_set \ {changes[1].id},
                         removed_set \cup {changes[1].id})

\* update_manual_selection taking an absent list for an empty one
UpdateManualSelection_FromEmpty(changes) ==
  /\ selected_ids' = Some(SortedSeq(ApplyChanges(changes, Range(OrEmpty(selected_ids)),
                                                  Range(OrEmpty(removed_ids))).selected))
  /\ removed_ids' = removed_ids
  /\ last' = Reply("update_manual_selection", "Ok", changes, NoSummary)
  /\ UNCHANGED <<dataset, field_map, filters, distill_config, filtered_ids,
                 manual_include, manual_exclude, cancel, ops>>

\* the call holds the write lock from its first line to its last.  Each of the
\* two lists is taken out of the state before it is known to be there.
UpdateManualSelection(changes) ==
  /\ IF ~IsSome(selected_ids)
     THEN /\ UNCHANGED <<selected_ids, removed_ids>>
          /\ last' = Err("update_manual_selection", "NoPreview")
     ELSE IF ~IsSome(removed_ids)
     THEN /\ selected_ids' = None
          /\ removed_ids' = removed_ids
          /\ last' = Err("update_manual_selection", "NoPreview")
     ELSE LET sets == ApplyChanges(changes, Range(selected_ids.val), Range(removed_ids.val))
              selected_vec == SortedSeq(sets.selected)
              removed_vec == SortedSeq(sets.removed)
          IN /\ selected_ids' = Some(selected_vec)
             /\ removed_ids' = Some(removed_vec)
             /\ last' = Reply("update_manual_selection", "Ok", changes,
                              [total_count |-> Len(selected_vec) + Len(removed_vec),
                               selected_count |-> Len(selected_vec),
                               removed_count |-> Len(removed_vec)])
  /\ UNCHANGED <<dataset, field_map, filters, distill_config, filtered_ids,
                 manual_include, manual_exclude, cancel, ops>>

(* set_field_map (commands/filters.rs 72-77) *)

set_field_map(fm) ==
  /\ field_map' = fm
  /\ UNCHANGED <<dataset, filters, distill_config, filtered_ids, selected_ids,
                 removed_ids, manual_include, manual_exclude, cancel, ops, last>>

(* cancel_task (commands/settings.rs 12-16) *)

cancel_task ==
  /\ cancel' = TRUE
  /\ UNCHANGED <<published, ops, last>>

(* view resolution (commands/dataset.rs 17-76) *)

\* Iterator::skip(offset).take(page_size) over a list
SkipTake(list, offset, page_size) ==
  IF offset >= Len(list) THEN <<>>
  ELSE SubSeq(list, offset + 1, Min(offset + page_size, Len(list)))

\* dataset.rs 27-35: a page of a stored list, and the length of the list
ListPage(list, offset, page_size) ==
  [ids |-> SkipTake(list, offset, page_size), total |-> Len(list)]

\* dataset.rs 37-39, 70-73: a page of all ids of the store; a range whose
\* start is not below its end is empty
RawPage(store, offset, page_size) ==
  [ids |-> RangeVec(offset, Min(offset + page_size, store.record_count)),
   total |-> store.record_count]

\* the offset of a page counted from 0
PageOffset_FromZero(page, page_size) == page * page_size

\* dataset.rs 24: page.saturating_sub(1) * page_size
PageOffset(page, page_size) == Max(page - 1, 0) * page_size

\* dataset.rs 25-75: the ids of one page of a view and the size of the view
PageAt(filtered, selected, removed, store, view, offset, page_size) ==
  CASE view = "filtered" ->
         IF IsSome(filtered) THEN ListPage(filtered.val, offset, page_size)
         ELSE RawPage(store, offset, page_size)
    [] view = "selected" ->
         IF IsSome(selected) THEN ListPage(selected.val, offset, page_size)
         ELSE [ids |-> <<>>, total |-> 0]
    [] view = "removed" ->
         IF IsSome(removed) THEN ListPage(removed.val, offset, page_size)
         ELSE [ids |-> <<>>, total |-> 0]
    [] OTHER -> RawPage(store, offset, page_size)

resolve_view_ids(filtered, selected, removed, store, view, page, page_size) ==
  PageAt(filtered, selected, removed, store, view, PageOffset(page, page_size), page_size)

(* get_preview (commands/dataset.rs 133-158) *)

\* dataset.rs 145-157: every id of the page is read from the store (an id
\* beyond the offsets is out of range, io.rs 186-188); the reply carries the
\* items by id and the size of the view
PreviewPageOf(r, store, args) ==
  IF \E i \in 1..Len(r.ids) : r.ids[i] >= Len(store.offsets)
  THEN Err("get_preview", "OutOfRange")
  ELSE Reply("get_preview", "Ok", args, [items |-> r.ids, total_count |-> r.total])

\* the call holds the read lock from its first line to its last
get_preview(view, page, page_size) ==
  /\ last' = IF ~IsSome(dataset) THEN Err("get_preview", "NoDataset")
             ELSE PreviewPageOf(resolve_view_ids(filtered_ids, selected_ids, removed_ids,
                                                 dataset.val, view, page, page_size),
                                dataset.val,
                                [view |-> view, page |-> page, page_size |-> page_size])
  /\ UNCHANGED <<published, cancel, ops>>

(* get_record (commands/dataset.rs 160-168) *)

\* io.rs 185-202: the line at the id's offset, parsed
read_record_value(store, id) ==
  IF id >= Len(store.offsets) THEN Err("get_record", "OutOfRange")
  ELSE Reply("get_record", "Ok", [id |-> id], [record |-> store.records[id + 1]])

get_record(id) ==
  /\ last' = IF ~IsSome(dataset) THEN Err("get_record", "NoDataset")
             ELSE read_record_value(dataset.val, id)
  /\ UNCHANGED <<published, cancel, ops>>

(* list_categories (commands/filters.rs 62-70, backend filters.rs 198-219) *)

\* filters.rs 207-210: the text of the field in every record that has it
RECURSIVE FieldValues(_, _)
FieldValues(records, field) ==
  IF records = <<>> THEN <<>>
  ELSE IF IsSome(Get(records[1], field))
  THEN <<value_to_string(Get(records[1], field).val)>> \o FieldValues(Tail(records), field)
  ELSE FieldValues(Tail(records), field)

\* the distinct members of a sequence, in order of first occurrence
RECURSIVE Distinct(_, _)
Distinct(s, seen) ==
  IF s = <<>> THEN <<>>
  ELSE IF s[1] \in seen THEN Distinct(Tail(s), seen)
  ELSE <<s[1]>> \o Distinct(Tail(s), seen \cup {s[1]})

\* filters.rs 213-216: the counts, in the iteration order of the map
CountsOf(values, names) ==
  [i \in 1..Len(names) |->
     [name |-> names[i],
      count |-> Cardinality({j \in 1..Len(values) : values[j] = names[i]})]]

\* filters.rs 198-219: the categories by descending count, the map's order
\* (perm) deciding among equal counts
CategoriesOf(values, perm) ==
  SortByCountDesc(CountsOf(values, HashOrder(Distinct(values, {}), perm)))

collect_categories(store, field, perm) ==
  CategoriesOf(FieldValues(store.records, field), perm)

list_categories(field, perm) ==
  /\ last' = IF ~IsSome(dataset) THEN Err("list_categories", "NoDataset")
             ELSE Reply("list_categories", "Ok", [field |-> field],
                        [categories |-> collect_categories(dataset.val, field, perm)])
  /\ UNCHANGED <<published, cancel, ops>>

-----------------------------------------------------------------------------
(* The session: the commands arrive in any order.  import_dataset,         *)
(* apply_filters and preview_distillation each run on a thread of their    *)
(* own and overlap freely, their steps interleaved; cancel_task and        *)
(* update_manual_selection arrive at any moment.  An export is started     *)
(* with no other long command in flight, and none is started before it     *)
(* ends.                                                                   *)

\* a source of two objects
BigSource == SourceOf("big", <<Item(ObjectValue(R1)), Item(ObjectValue(R4))>>)

\* a source of one scalar
SmallSource == SourceOf("small", <<Item(ScalarValue(Num(<<"7">>)))>>)

\* a source whose first line is malformed
BadSource == SourceOf("bad", <<BadItem>>)

SessionSources == {BigSource, SmallSource, BadSource}

SessionFilterCalls == {<<DefaultFilters, FullFieldMap>>}

SessionDistillCalls ==
  {<<DistillConfigOf(Some(1), Some(50), "importance", None, FALSE), FullFieldMap>>}

Views == {"raw", "filtered", "selected", "removed"}

\* the change list of the session
SessionChanges == {<<ManualChange(1, TRUE), ManualChange(0, FALSE)>>}

\* the long commands in flight
InFlight ==
  Cardinality({i \in 1..4 : <<importOp, filterOp, distillOp, exportOp>>[i].pc # "idle"})

Next ==
  \/ \E source \in SessionSources :
       /\ exportOp.pc = "idle"
       /\ ImportBegin(source)
  \/ ImportRecord
  \/ ImportCommit
  \/ \E call \in SessionFilterCalls :
       /\ exportOp.pc = "idle"
       /\ FilterBegin(call[1], call[2])
  \/ \E ioError \in BOOLEAN : FilterLine(ioError)
  \/ FilterCommit
  \/ \E call \in SessionDistillCalls :
       /\ exportOp.pc = "idle"
       /\ DistillBegin(call[1], call[2])
  \/ DistillSnapshot
  \/ \E ioError \in BOOLEAN : DistillLine(ioError)
  \/ DistillCommit
  \/ \E view \in Views :
       /\ InFlight = 0
       /\ ExportBegin(view)
  \/ ExportSnapshot
  \/ ExportEntry
  \/ ExportWrite
  \/ ExportDone
  \/ \E changes \in SessionChanges : UpdateManualSelection(changes)
  \/ set_field_map(DefaultFieldMap)
  \/ cancel_task

Spec == Init /\ [][Next]_vars

-----------------------------------------------------------------------------
(* The session with its read-only commands.  get_preview, get_record and   *)
(* list_categories arrive at any moment, as do cancel_task, set_field_map  *)
(* and update_manual_selection.  The first import overlaps with the entry  *)
(* of any other command; once a dataset is loaded the long commands run    *)
(* one at a time.                                                          *)

\* the pages the session asks for
SessionPages == {<<view, page, 1>> : view \in Views, page \in {1, 2}}

\* the ids the session asks for: the first record, and one beyond any store
SessionRecordIds == {0, 5}

\* no later command in flight, and no import either once a dataset is loaded
LaterIdle ==
  /\ filterOp.pc = "idle" /\ distillOp.pc = "idle" /\ exportOp.pc = "idle"
  /\ IsSome(dataset) => importOp.pc = "idle"

NextView ==
  \/ \E source \in SessionSources :
       /\ LaterIdle
       /\ ImportBegin(source)
  \/ ImportRecord
  \/ ImportCommit
  \/ \E call \in SessionFilterCalls :
       /\ LaterIdle
       /\ FilterBegin(call[1], call[2])
  \/ FilterLine(FALSE)
  \/ FilterCommit
  \/ \E call \in SessionDistillCalls :
       /\ LaterIdle
       /\ DistillBegin(call[1], call[2])
  \/ DistillSnapshot
  \/ DistillLine(FALSE)
  \/ DistillCommit
  \/ \E view \in Views :
       /\ LaterIdle
       /\ ExportBegin(view)
  \/ ExportSnapshot
  \/ ExportEntry
  \/ ExportWrite
  \/ ExportDone
  \/ \E call \in SessionPages : get_preview(call[1], call[2], call[3])
  \/ \E id \in SessionRecordIds : get_record(id)
  \/ \E perm \in Perms(2) : list_categories("cat", perm)
  \/ \E changes \in SessionChanges : UpdateManualSelection(changes)
  \/ set_field_map(DefaultFieldMap)
  \/ cancel_task

SpecView == Init /\ [][NextView]_vars

-----------------------------------------------------------------------------
(* Distillation runs: a session that holds any store of at most MaxRecords *)
(* records of the pool and any filter result over it.  SpecDistill runs    *)
(* one preview; SpecDistillAgain runs previews one after the other, each   *)
(* with the configuration of the one before.                               *)

DistillPool == {R1, R3, R4}

DistillStores == {StoreOfRecords("gen", rs) : rs \in SeqsUpTo(DistillPool, MaxRecords)}

TargetChoices == {<<Some(2), Some(50)>>, <<None, Some(50)>>, <<None, None>>}

DistillConfigs ==
  {DistillConfigOf(t[1], t[2], strategy, seed, balance) :
     t \in TargetChoices, strategy \in {"importance", "random", "diversity"},
     seed \in {None, Some(7)}, balance \in BOOLEAN}

InitDistill ==
  /\ \E store \in DistillStores :
       /\ dataset = Some(store)
       /\ filtered_ids \in {None} \cup {Some(l) : l \in SortedIdLists(store.record_count)}
  /\ field_map = DefaultFieldMap
  /\ filters = DefaultFilters
  /\ distill_config = DefaultDistill
  /\ selected_ids = None
  /\ removed_ids = None
  /\ manual_include = {}
  /\ manual_exclude = {}
  /\ cancel = FALSE
  /\ importOp = IdleImport
  /\ filterOp = IdleFilter
  /\ distillOp = IdleDistill
  /\ exportOp = IdleExport
  /\ last = Err("none", "Ok")

NextDistill ==
  \/ \E config \in DistillConfigs :
       /\ ~IsSome(selected_ids)
       /\ DistillBegin(config, FullFieldMap)
  \/ DistillSnapshot
  \/ DistillLine(FALSE)
  \/ DistillCommit

NextDistillAgain ==
  \/ \E config \in DistillConfigs :
       /\ IsSome(selected_ids) => config = distill_config
       /\ DistillBegin(config, FullFieldMap)
  \/ DistillSnapshot
  \/ DistillLine(FALSE)
  \/ DistillCommit

SpecDistill == InitDistill /\ [][NextDistill]_vars

SpecDistillAgain == InitDistill /\ [][NextDistillAgain]_vars

-----------------------------------------------------------------------------
(* Filter runs: a session that holds any store of at most MaxRecords       *)
(* records of the pool, where one apply_filters call is made.              *)

FilterPool == {R1, R2, R3, R4, R5, R6, R7}

FilterStores == {StoreOfRecords("gen", rs) : rs \in SeqsUpTo(FilterPool, MaxRecords)}

\* fuzzy dedup alone
FuzzyFilters == [DefaultFilters EXCEPT !.dedupe_exact = FALSE, !.dedupe_fuzzy = TRUE]

\* both dedups, only the output required: an instruction may be empty
OutputRequiredFilters ==
  [DefaultFilters EXCEPT !.require_fields = <<"a">>, !.dedupe_fuzzy = TRUE]

\* length, keyword and category predicates, both dedups
PredicateFilters ==
  [DefaultFilters EXCEPT !.min_length = Some(3), !.max_length = Some(7),
                         !.exclude_keywords = <<<<"X", "Y">>>>,
                         !.categories = <<<<"a">>, <<"b">>>>,
                         !.dedupe_fuzzy = TRUE]

\* the (filters, field_map) pairs apply_filters is called with
FilterCalls ==
  {<<DefaultFilters, FullFieldMap>>, <<FuzzyFilters, FullFieldMap>>,
   <<OutputRequiredFilters, FullFieldMap>>, <<OutputRequiredFilters, UpperFieldMap>>,
   <<PredicateFilters, FullFieldMap>>}

InitFilter ==
  /\ \E store \in FilterStores : dataset = Some(store)
  /\ field_map = DefaultFieldMap
  /\ filters = DefaultFilters
  /\ distill_config = DefaultDistill
  /\ filtered_ids = None
  /\ selected_ids = None
  /\ removed_ids = None
  /\ manual_include = {}
  /\ manual_exclude = {}
  /\ cancel = FALSE
  /\ importOp = IdleImport
  /\ filterOp = IdleFilter
  /\ distillOp = IdleDistill
  /\ exportOp = IdleExport
  /\ last = Err("none", "Ok")

NextFilter ==
  \/ \E call \in FilterCalls :
       /\ ~IsSome(filtered_ids)
       /\ FilterBegin(call[1], call[2])
  \/ FilterLine(FALSE)
  \/ FilterCommit

SpecFilter == InitFilter /\ [][NextFilter]_vars

-----------------------------------------------------------------------------
(* Properties of the filter engine.                                        *)

\* the ids of the records of a store that pass predicates 1-4
PassingIds(store, f, fm) ==
  {i \in 0..(Len(store.records) - 1) : PassesPredicates(store.records[i + 1], f, fm)}

\* C3: after a filter run, filtered_ids is strictly ascending and within
\* [0, record_count), filtered_count is its length, and duplicates_removed is
\* the number of records that passed predicates 1-4 and were not kept, that
\* is, the records dropped at the exact or the fuzzy dedup step; records
\* the presence, length, keyword or category predicate rejects are not counted.
C3_FilterResult ==
  (IsSome(filtered_ids) /\ last.cmd = "apply_filters" /\ last.outcome = "Ok") =>
    LET ids == filtered_ids.val
        store == dataset.val
    IN /\ IsStrictlyAsc(ids)
       /\ Range(ids) \subseteq 0..(store.record_count - 1)
       /\ last.summary.filtered_count = Len(ids)
       /\ last.summary.total_count = store.record_count
       /\ Range(ids) \subseteq PassingIds(store, filters, field_map)
       /\ last.summary.duplicates_removed
            = Cardinality(PassingIds(store, filters, field_map)) - Len(ids)

\* C3 witness: a run that kept a record, rejected one at predicates 1-4 and
\* dropped one as a duplicate.
C3_Witness ==
  /\ IsSome(filtered_ids)
  /\ last.cmd = "apply_filters"
  /\ last.outcome = "Ok"
  /\ Len(filtered_ids.val) >= 1
  /\ last.summary.duplicates_removed >= 1
  /\ Cardinality(PassingIds(dataset.val, filters, field_map)) < dataset.val.record_count

-----------------------------------------------------------------------------
(* Properties of the distillation engine.                                  *)

\* the step on which a preview_distillation call returns Ok and commits
PreviewCommits ==
  /\ distillOp.pc = "run"
  /\ distillOp'.pc = "idle"
  /\ last'.cmd = "preview_distillation"
  /\ last'.outcome = "Ok"

\* C1: the lists a distillation preview returns are both sorted ascending and
\* disjoint, their union is the base id set (the filter result, or every id
\* of the store), and no more ids are selected than the target computed from
\* the size of the base.
C1_PreviewPartitionsBase ==
  IsSome(selected_ids) =>
    LET base == BaseIds(dataset.val, filtered_ids)
        selected == selected_ids.val
        removed == removed_ids.val
    IN /\ IsSome(removed_ids)
       /\ IsSortedAsc(selected)
       /\ IsSortedAsc(removed)
       /\ Range(selected) \cap Range(removed) = {}
       /\ Range(selected) \cup Range(removed) = Range(base)
       /\ Len(selected) + Len(removed) = Len(base)
       /\ Len(selected) <= TargetOf(Len(base), distill_config)

\* C1 witness: a stratified diversity preview over a filter result has
\* returned, with ids on both sides.
C1_Witness ==
  /\ IsSome(selected_ids)
  /\ IsSome(filtered_ids)
  /\ distill_config.preserve_category_balance
  /\ distill_config.strategy = "diversity"
  /\ Len(selected_ids.val) >= 2
  /\ Len(removed_ids.val) >= 1
  /\ last.cmd = "preview_distillation"

\* C2: distillation is deterministic: a preview run again over the same
\* store, base ids, field map and configuration (so with the same seed)
\* returns the selected_ids of the run before.
C2_SameInputsSameSelection ==
  [][(/\ PreviewCommits
      /\ IsSome(selected_ids)
      /\ distillOp.config = distill_config
      /\ distillOp.field_map = field_map
      /\ distillOp.base = filtered_ids
      /\ Some(distillOp.store) = dataset)
     => selected_ids' = selected_ids]_vars

-----------------------------------------------------------------------------
(* Properties of the session.                                              *)

\* the step in which import_dataset commits
ImportCommits ==
  /\ importOp.pc = "run"
  /\ importOp.w.pos = Len(importOp.w.source.items)
  /\ importOp'.pc = "idle"

\* the step in which apply_filters commits
FilterCommits ==
  /\ filterOp.pc = "run"
  /\ filterOp.w.idx = Len(filterOp.w.store.records)
  /\ filterOp'.pc = "idle"

\* C4: a commit clears the state of the later stages.  When import_dataset
\* commits, filtered_ids, selected_ids and removed_ids are absent and the
\* manual override sets empty; when apply_filters commits, selected_ids and
\* removed_ids are absent and the override sets empty; when
\* preview_distillation commits, the override sets are empty and the two
\* lists are the preview's own partition of its base, whatever manual
\* changes they carried before.
C4_CommitClearsLaterStages ==
  [][/\ ImportCommits =>
          /\ dataset' = Some(StoreOf(importOp.w))
          /\ filtered_ids' = None
          /\ selected_ids' = None
          /\ removed_ids' = None
          /\ manual_include' = {}
          /\ manual_exclude' = {}
     /\ FilterCommits =>
          /\ filtered_ids' = Some(filterOp.w.filtered_ids)
          /\ selected_ids' = None
          /\ removed_ids' = None
          /\ manual_include' = {}
          /\ manual_exclude' = {}
     /\ PreviewCommits =>
          /\ manual_include' = {}
          /\ manual_exclude' = {}
          /\ IsSome(selected_ids')
          /\ IsSome(removed_ids')
          /\ Range(selected_ids'.val) \cap Range(removed_ids'.val) = {}
          /\ Range(selected_ids'.val) \cup Range(removed_ids'.val)
               = Range(BaseIds(distillOp.store, distillOp.base))]_vars

\* C4 witness: an import has committed while a preview that had cloned a
\* filter result is still running; the filter result and the lists are gone.
C4_Witness ==
  /\ last.cmd = "import_dataset"
  /\ last.outcome = "Ok"
  /\ distillOp.pc = "run"
  /\ IsSome(distillOp.base)
  /\ filtered_ids = None
  /\ selected_ids = None
  /\ removed_ids = None

\* C5: a present filtered_ids is sorted ascending and within
\* [0, record_count) of the dataset the session holds, also when
\* import_dataset and apply_filters overlap.
C5_FilteredIdsWithinDataset ==
  (IsSome(dataset) /\ IsSome(filtered_ids)) =>
    /\ IsSortedAsc(filtered_ids.val)
    /\ Range(filtered_ids.val) \subseteq 0..(dataset.val.record_count - 1)

\* the steps in which a long command fails
ImportFails ==
  /\ importOp.pc = "run"
  /\ importOp.w.pos < Len(importOp.w.source.items)
  /\ importOp'.pc = "idle"

FilterFails ==
  /\ filterOp.pc = "run"
  /\ filterOp.w.idx < Len(filterOp.w.store.records)
  /\ filterOp'.pc = "idle"

PreviewFails ==
  /\ distillOp.pc = "run"
  /\ distillOp.idx < Len(distillOp.store.records)
  /\ distillOp'.pc = "idle"

\* C6: a long command that fails, canceled or on a parse or I/O error, leaves
\* the published state of the session as it was, and reports the failure.
C6_FailureDoesNotPublish ==
  [][(ImportFails \/ FilterFails \/ PreviewFails) =>
       /\ published' = published
       /\ last'.outcome \in {"Canceled", "ParseError", "IoError"}]_vars

\* C6 witness: an import was canceled, and the dataset and the filter result
\* published before it are in place.
C6_Witness ==
  /\ last.cmd = "import_dataset"
  /\ last.outcome = "Canceled"
  /\ IsSome(dataset)
  /\ IsSome(filtered_ids)
  /\ filtered_ids.val # <<>>

\* C9: once the cancel flag is set, an export that is iterating over its ids
\* writes no further record.
C9_NoWriteOnceCanceled ==
  [][~(/\ cancel
       /\ exportOp.pc = "write"
       /\ exportOp'.pc = "write"
       /\ exportOp'.idx = exportOp.idx + 1)]_vars

-----------------------------------------------------------------------------
(* Manual overrides: a session that holds a store of at most MaxRecords    *)
(* records, where one preview is run and update_manual_selection is called *)
(* with any list of at most MaxChanges changes, before and after it.       *)

ManualStores ==
  {StoreOfRecords("gen", Take(<<R1, R4, R8, R3>>, n)) : n \in 1..MaxRecords}

\* the ids a change names: two ids of the store, and one no store holds
ManualIds == {0, 1, 9}

ManualChangeLists ==
  SeqsUpTo({ManualChange(id, include) : id \in ManualIds, include \in BOOLEAN}, MaxChanges)

ManualConfig == DistillConfigOf(None, Some(50), "importance", None, FALSE)

InitManual ==
  /\ \E store \in ManualStores : dataset = Some(store)
  /\ field_map = DefaultFieldMap
  /\ filters = DefaultFilters
  /\ distill_config = DefaultDistill
  /\ filtered_ids = None
  /\ selected_ids = None
  /\ removed_ids = None
  /\ manual_include = {}
  /\ manual_exclude = {}
  /\ cancel = FALSE
  /\ importOp = IdleImport
  /\ filterOp = IdleFilter
  /\ distillOp = IdleDistill
  /\ exportOp = IdleExport
  /\ last = Err("none", "Ok")

NextManual ==
  \/ /\ ~IsSome(selected_ids)
     /\ DistillBegin(ManualConfig, FullFieldMap)
  \/ DistillSnapshot
  \/ DistillLine(FALSE)
  \/ DistillCommit
  \/ \E changes \in ManualChangeLists : UpdateManualSelection(changes)

SpecManual == InitManual /\ [][NextManual]_vars

\* the ids a change list names
Named(changes) == {changes[i].id : i \in 1..Len(changes)}

\* the include flag of the last change that names the id
LastInclude(changes, id) ==
  LET i == CHOOSE k \in 1..Len(changes) :
             /\ changes[k].id = id
             /\ \A j \in (k + 1)..Len(changes) : changes[j].id # id
  IN changes[i].include

\* C7: update_manual_selection applies its changes in list order.  After the
\* call an id the list names is in selected_ids and not in removed_ids when
\* its last change includes it, and in removed_ids and not in selected_ids
\* otherwise; an id the list does not name is on the side it was; both lists
\* are sorted ascending; the summary counts the two lists and their sum.
C7_ManualAppliesInOrder ==
  [][(/\ IsSome(selected_ids)
      /\ IsSome(removed_ids)
      /\ last'.cmd = "update_manual_selection"
      /\ UpdateManualSelection(last'.args)) =>
       LET changes == last'.args
           before_s == Range(selected_ids.val)
           before_r == Range(removed_ids.val)
           after_s == Range(selected_ids'.val)
           after_r == Range(removed_ids'.val)
       IN /\ \A id \in Named(changes) :
               IF LastInclude(changes, id)
               THEN id \in after_s /\ id \notin after_r
               ELSE id \in after_r /\ id \notin after_s
          /\ \A id \in (before_s \cup before_r \cup after_s \cup after_r) \ Named(changes) :
               /\ id \in after_s <=> id \in before_s
               /\ id \in after_r <=> id \in before_r
          /\ IsSortedAsc(selected_ids'.val)
          /\ IsSortedAsc(removed_ids'.val)
          /\ last'.outcome = "Ok"
          /\ last'.summary.selected_count = Len(selected_ids'.val)
          /\ last'.summary.removed_count = Len(removed_ids'.val)
          /\ last'.summary.total_count
               = Len(selected_ids'.val) + Len(removed_ids'.val)]_vars

\* C7 witness: a call whose list names one id twice, first excluded then
\* included, has left the id among the selected ones, and an id it did not
\* name among the removed ones.
C7_Witness ==
  /\ last.cmd = "update_manual_selection"
  /\ last.outcome = "Ok"
  /\ Len(last.args) = 2
  /\ last.args[1].id = last.args[2].id
  /\ ~last.args[1].include
  /\ last.args[2].include
  /\ last.args[2].id \in Range(selected_ids.val)
  /\ last.args[2].id \notin Range(removed_ids.val)
  /\ Range(removed_ids.val) \ Named(last.args) # {}

\* C8: after a preview and any calls of update_manual_selection, selected_ids
\* and removed_ids are disjoint, their union is the base set the preview was
\* computed on, and the total a call returns is the size of that base.
C8_ManualKeepsPartition ==
  (IsSome(selected_ids) /\ IsSome(removed_ids)) =>
    LET base == BaseIds(dataset.val, filtered_ids)
    IN /\ Range(selected_ids.val) \cap Range(removed_ids.val) = {}
       /\ Range(selected_ids.val) \cup Range(removed_ids.val) = Range(base)
       /\ (last.cmd = "update_manual_selection" /\ last.outcome = "Ok") =>
            last.summary.total_count = Len(base)

-----------------------------------------------------------------------------
(* Ingestion: a session where one import_dataset call is made, on any      *)
(* source of at most MaxRecords values.                                    *)

IngestItems ==
  {Item(ObjectValue(R1)), Item(ObjectValue(R4)), Item(ScalarValue(Num(<<"7">>))),
   Item(ScalarValue(Str(<<"a", "\n">>))), BadItem}

IngestSources == {SourceOf("gen", items) : items \in SeqsUpTo(IngestItems, MaxRecords)}

NextIngest ==
  \/ \E source \in IngestSources :
       /\ last.cmd = "none"
       /\ ImportBegin(source)
  \/ ImportRecord
  \/ ImportCommit
  \/ cancel_task

SpecIngest == Init /\ [][NextIngest]_vars

\* the byte positions at which the lines of a file begin
LineStarts(file) ==
  SortedSeq({p \in 0..(Len(file) - 1) : p = 0 \/ file[p] = "\n"})

\* C10: the offsets of ingestion are the byte positions at which the lines of
\* the store file begin.  As the worker writes, its offsets are the line
\* starts of the file written so far, one a record; in the store it returns
\* there are record_count offsets, the first is 0, they increase strictly,
\* and each is the one before it plus the length of that record's line plus
\* one.
C10_OffsetsAreLineStarts ==
  /\ importOp.pc = "run" =>
       /\ importOp.w.offsets = LineStarts(importOp.w.file)
       /\ Len(importOp.w.offsets) = importOp.w.count
       /\ importOp.w.offset = Len(importOp.w.file)
  /\ IsSome(dataset) =>
       LET s == dataset.val
       IN /\ Len(s.offsets) = s.record_count
          /\ Len(s.records) = s.record_count
          /\ s.record_count > 0 => s.offsets[1] = 0
          /\ IsStrictlyAsc(s.offsets)
          /\ \A i \in 1..(s.record_count - 1) :
               s.offsets[i + 1] = s.offsets[i] + Len(to_vec(s.records[i])) + 1

\* C10 witness: a store of two records or more was returned, one of them a
\* wrapped scalar whose text holds a line feed.
C10_Witness ==
  /\ IsSome(dataset)
  /\ last.cmd = "import_dataset"
  /\ last.outcome = "Ok"
  /\ dataset.val.record_count >= 2
  /\ \E i \in 1..dataset.val.record_count :
       /\ dataset.val.records[i].value.kind = "string"
       /\ "\n" \in Range(dataset.val.records[i].value.text)

-----------------------------------------------------------------------------
(* The later commands without a dataset.                                   *)

\* the entry of a command of the second stage or later
LaterCall ==
  \/ \E call \in SessionPages : get_preview(call[1], call[2], call[3])
  \/ \E id \in SessionRecordIds : get_record(id)
  \/ \E view \in Views : ExportBegin(view)
  \/ \E call \in SessionFilterCalls : FilterBegin(call[1], call[2])
  \/ \E perm \in Perms(2) : list_categories("cat", perm)
  \/ \E call \in SessionDistillCalls : DistillBegin(call[1], call[2])

LaterCommands ==
  {"get_preview", "get_record", "export_dataset", "apply_filters",
   "list_categories", "preview_distillation"}

\* C11: get_preview, get_record, export_dataset, apply_filters,
\* list_categories and preview_distillation, invoked while the session holds
\* no dataset, each reply NoDataset and leave dataset, field_map, filters,
\* distill_config, filtered_ids, selected_ids and removed_ids as they were;
\* none of them goes in flight.
C11_NoDatasetFailsUnchanged ==
  [][(~IsSome(dataset) /\ LaterCall) =>
       /\ last'.outcome = "NoDataset"
       /\ last'.cmd \in LaterCommands
       /\ UNCHANGED <<dataset, field_map, filters, distill_config,
                      filtered_ids, selected_ids, removed_ids>>
       /\ UNCHANGED <<filterOp, distillOp, exportOp>>]_vars

\* preview_distillation has failed for want of a dataset while an import was
\* collecting its records
C11_Witness ==
  /\ ~IsSome(dataset)
  /\ last = Err("preview_distillation", "NoDataset")
  /\ importOp.pc # "idle"
  /\ distillOp.pc = "idle"

-----------------------------------------------------------------------------
(* update_manual_selection without a preview.                              *)

\* C12: in every reachable state selected_ids is present exactly when
\* removed_ids is; update_manual_selection called while no preview is
\* published (never run, or cleared by a later import or apply_filters commit)
\* replies NoPreview and leaves selected_ids and removed_ids as they were.
C12_NoPreviewFailsUnchanged ==
  /\ [](IsSome(selected_ids) <=> IsSome(removed_ids))
  /\ [][(~IsSome(selected_ids) /\ \E changes \in SessionChanges : UpdateManualSelection(changes)) =>
          /\ last' = Err("update_manual_selection", "NoPreview")
          /\ UNCHANGED <<selected_ids, removed_ids>>]_vars

\* the call has failed in a session whose filter result is published and
\* whose preview is not
C12_Witness ==
  /\ last = Err("update_manual_selection", "NoPreview")
  /\ IsSome(filtered_ids)
  /\ ~IsSome(selected_ids)
  /\ ~IsSome(removed_ids)

-----------------------------------------------------------------------------
(* The target size.  SpecTarget runs one preview without stratification    *)
(* over any store of at most MaxRecords records and any filter result,     *)
(* with a target count below, within and beyond the size of the base, with *)
(* and without a percentage, under each strategy and an unknown one.       *)

TargetCounts == {None, Some(0), Some(2), Some(MaxRecords + 2)}

TargetConfigs ==
  {DistillConfigOf(count, percent, strategy, None, FALSE) :
     count \in TargetCounts, percent \in {None, Some(50)},
     strategy \in {"importance", "random", "diversity", "other"}}

NextTarget ==
  \/ \E config \in TargetConfigs :
       /\ ~IsSome(selected_ids)
       /\ DistillBegin(config, FullFieldMap)
  \/ DistillSnapshot
  \/ DistillLine(FALSE)
  \/ DistillCommit

SpecTarget == InitDistill /\ [][NextTarget]_vars

\* C13: a preview without stratification selects nothing from an empty base,
\* and from a base of total records exactly target ids under every strategy,
\* where target is target_count clamped to [1, total] whenever target_count is
\* set, whatever target_percent is.
C13_TargetSize ==
  (IsSome(selected_ids) /\ ~distill_config.preserve_category_balance) =>
    LET total == Len(BaseIds(dataset.val, filtered_ids))
    IN IF total = 0 THEN selected_ids.val = <<>>
       ELSE IF IsSome(distill_config.target_count)
       THEN Len(selected_ids.val) = Max(1, Min(distill_config.target_count.val, total))
       ELSE Len(selected_ids.val) = TargetOf(total, distill_config)

\* a target count of 2 has overridden a percentage that asks for one record
\* of three, under an unknown strategy
C13_Witness ==
  /\ IsSome(selected_ids)
  /\ distill_config.target_count = Some(2)
  /\ distill_config.target_percent = Some(50)
  /\ distill_config.strategy = "other"
  /\ Len(BaseIds(dataset.val, filtered_ids)) = 2
  /\ dataset.val.record_count = 3
  /\ Len(selected_ids.val) = 2

-----------------------------------------------------------------------------
(* Stratification.  SpecStrata runs one preview with                       *)
(* preserve_category_balance over any store of at most MaxStrata records   *)
(* of categories A, B and none, with every target count from 1 to          *)
(* MaxStrata, under each strategy, with and without a seed.                *)

StrataPool == {R1, R3, R4}

StrataStores == {StoreOfRecords("gen", rs) : rs \in SeqsUpTo(StrataPool, MaxStrata)}

StrataConfigs ==
  {DistillConfigOf(Some(count), None, strategy, seed, TRUE) :
     count \in 1..MaxStrata, strategy \in {"importance", "random", "diversity"},
     seed \in {None, Some(7)}}

InitStrata ==
  /\ \E store \in StrataStores : dataset = Some(store)
  /\ field_map = DefaultFieldMap
  /\ filters = DefaultFilters
  /\ distill_config = DefaultDistill
  /\ filtered_ids = None
  /\ selected_ids = None
  /\ removed_ids = None
  /\ manual_include = {}
  /\ manual_exclude = {}
  /\ cancel = FALSE
  /\ importOp = IdleImport
  /\ filterOp = IdleFilter
  /\ distillOp = IdleDistill
  /\ exportOp = IdleExport
  /\ last = Err("none", "Ok")

NextStrata ==
  \/ \E config \in StrataConfigs :
       /\ ~IsSome(selected_ids)
       /\ DistillBegin(config, FullFieldMap)
  \/ DistillSnapshot
  \/ DistillLine(FALSE)
  \/ DistillCommit

SpecStrata == InitStrata /\ [][NextStrata]_vars

\* the category of a record of the store, as the engine keys it
CategoryOfId(store, fm, id) ==
  CategoryKey(build_record_meta(store.records[id + 1], id, fm, "importance"))

\* the ids of a list that fall in a category
InCategory(store, fm, ids, name) ==
  {i \in 1..Len(ids) : CategoryOfId(store, fm, ids[i]) = name}

\* C14: with preserve_category_balance, whenever the share size * target /
\* total of every category of the base is a whole number, the selection holds
\* exactly that many ids of each category (records without a category under
\* "uncategorized"), under every strategy and seed.
C14_ProportionalShares ==
  (IsSome(selected_ids) /\ distill_config.preserve_category_balance) =>
    LET base == BaseIds(dataset.val, filtered_ids)
        target == TargetOf(Len(base), distill_config)
        names == {CategoryOfId(dataset.val, field_map, base[i]) : i \in 1..Len(base)}
        size(name) == Cardinality(InCategory(dataset.val, field_map, base, name))
        picked(name) == Cardinality(InCategory(dataset.val, field_map, selected_ids.val, name))
    IN (\A name \in names : (size(name) * target) % Len(base) = 0) =>
         \A name \in names : picked(name) * Len(base) = size(name) * target

\* half of a store of two records of category A and two records without a
\* category has been selected: one of each
C14_Witness ==
  /\ IsSome(selected_ids)
  /\ distill_config.preserve_category_balance
  /\ distill_config.strategy = "importance"
  /\ dataset.val.records = <<R1, R1, R4, R4>>
  /\ Len(selected_ids.val) = 2
  /\ selected_ids.val[1] \in {0, 1}
  /\ selected_ids.val[2] \in {2, 3}

\* the allocations of a stratified run never exceed their categories
WithinCategories(as) == \A i \in 1..Len(as) : as[i].alloc <= as[i].count

\* the allocations of a stratified run sum to the target at least
ReachTarget(as, target) == SumSeq([i \in 1..Len(as) |-> as[i].alloc]) >= target

\* C18: a stratified preview over a non-empty base selects exactly target
\* ids, however the base divides into categories: in every iteration order of
\* the category map the topped-up allocations sum to the target at least and
\* none exceeds the size of its category, so the cap at the category size
\* loses no id, and a sum above the target is cut back to it.
C18_StratifiedReachesTarget ==
  [][(PreviewCommits /\ distillOp.config.preserve_category_balance /\ distillOp.metas # <<>>) =>
       /\ Len(selected_ids'.val) = TargetOf(Len(distillOp.metas), distillOp.config)
       /\ \A catPerm \in Perms(NumKeys(distillOp.metas, CategoryKey)) :
            /\ WithinCategories(
                 ToppedUp(Allocations(distillOp.metas,
                                      TargetOf(Len(distillOp.metas), distillOp.config),
                                      CategoryNames(distillOp.metas, catPerm)),
                          TargetOf(Len(distillOp.metas), distillOp.config)))
            /\ ReachTarget(
                 ToppedUp(Allocations(distillOp.metas,
                                      TargetOf(Len(distillOp.metas), distillOp.config),
                                      CategoryNames(distillOp.metas, catPerm)),
                          TargetOf(Len(distillOp.metas), distillOp.config)),
                 TargetOf(Len(distillOp.metas), distillOp.config))]_vars

\* one id has been selected from three categories of one record each, whose
\* rounded shares are all 0
C18_Witness ==
  /\ IsSome(selected_ids)
  /\ distill_config.preserve_category_balance
  /\ distill_config.target_count = Some(1)
  /\ dataset.val.records = <<R1, R3, R4>>
  /\ Len(selected_ids.val) = 1

-----------------------------------------------------------------------------
(* The strategies.  SpecStrategy runs one importance or diversity preview  *)
(* without stratification over any store of at most MaxRecords records     *)
(* whose scores are 0.9, 0.1, 0.5, a text that does not parse and NaN, and *)
(* whose instructions fall in three signature buckets.                     *)

ScorePool == {R1, R3, R4, R8, R9}

ScoreStores == {StoreOfRecords("gen", rs) : rs \in SeqsUpTo(ScorePool, MaxRecords)}

StrategyConfigs ==
  {DistillConfigOf(Some(count), None, "importance", None, FALSE) : count \in 1..MaxRecords}
    \cup {DistillConfigOf(Some(count), None, "diversity", seed, FALSE) :
             count \in 1..MaxRecords, seed \in {None, Some(7)}}

InitStrategy ==
  /\ \E store \in ScoreStores : dataset = Some(store)
  /\ field_map = DefaultFieldMap
  /\ filters = DefaultFilters
  /\ distill_config = DefaultDistill
  /\ filtered_ids = None
  /\ selected_ids = None
  /\ removed_ids = None
  /\ manual_include = {}
  /\ manual_exclude = {}
  /\ cancel = FALSE
  /\ importOp = IdleImport
  /\ filterOp = IdleFilter
  /\ distillOp = IdleDistill
  /\ exportOp = IdleExport
  /\ last = Err("none", "Ok")

NextStrategy ==
  \/ \E config \in StrategyConfigs :
       /\ ~IsSome(selected_ids)
       /\ DistillBegin(config, FullFieldMap)
  \/ DistillSnapshot
  \/ DistillLine(FALSE)
  \/ DistillCommit

SpecStrategy == InitStrategy /\ [][NextStrategy]_vars

\* the meta of a record of the store under the importance strategy
MetaOfId(store, fm, id) == build_record_meta(store.records[id + 1], id, fm, "importance")

\* C16: an importance preview without stratification selects the records of
\* highest score, ties by arrival: no unselected record of the base has a
\* strictly higher score than a selected one, and none has the score of a
\* selected one and a lower id.
C16_ImportanceTakesHighest ==
  (/\ IsSome(selected_ids)
   /\ distill_config.strategy = "importance"
   /\ ~distill_config.preserve_category_balance) =>
    \A i \in Range(selected_ids.val), j \in Range(removed_ids.val) :
      /\ ~ScoreBefore(MetaOfId(dataset.val, field_map, j), MetaOfId(dataset.val, field_map, i))
      /\ MetaOfId(dataset.val, field_map, j).score = MetaOfId(dataset.val, field_map, i).score
           => i < j

\* the number of ids of a list that fall in a bucket, bucketAt giving the
\* bucket of every id
CountIn(bucketAt, ids, bucket) ==
  Cardinality({i \in 1..Len(ids) : bucketAt[ids[i]] = bucket})

\* the shape of a round-robin selection over the buckets
RoundRobinShape(bucketAt, buckets, base, selected, target) ==
  /\ \A b1 \in buckets, b2 \in buckets :
       CountIn(bucketAt, selected, b1) > CountIn(bucketAt, selected, b2) + 1
         => CountIn(bucketAt, selected, b2) = CountIn(bucketAt, base, b2)
  /\ Len(selected) <= Cardinality(buckets) =>
       \A b \in buckets : CountIn(bucketAt, selected, b) <= 1
  /\ (base # <<>> /\ target = Cardinality(buckets)) =>
       \A b \in buckets : CountIn(bucketAt, selected, b) = 1

\* the buckets of the ids of a base
BucketsOf(bucketAt, base) == {bucketAt[base[i]] : i \in 1..Len(base)}

\* the bucket of every id of a sequence of metas
BucketAt(metas) ==
  [id \in Range(Ids(metas)) |->
     SignatureKey(metas[CHOOSE i \in 1..Len(metas) : metas[i].id = id])]

\* C17: a diversity preview without stratification takes its ids round-robin
\* over the signature buckets: a bucket gives more than one id above another
\* only when the other is exhausted; with a target of at most the number of
\* buckets no bucket gives two ids, and with a target equal to that number
\* every bucket gives exactly one.
C17_DiversityRoundRobin ==
  [][(/\ PreviewCommits
      /\ distillOp.config.strategy = "diversity"
      /\ ~distillOp.config.preserve_category_balance) =>
       RoundRobinShape(BucketAt(distillOp.metas),
                       BucketsOf(BucketAt(distillOp.metas), Ids(distillOp.metas)),
                       Ids(distillOp.metas), selected_ids'.val,
                       TargetOf(Len(distillOp.metas), distillOp.config))]_vars

\* two ids have been selected from a base of two records in one bucket and
\* one record in another: one id of each bucket
C17_Witness ==
  /\ IsSome(selected_ids)
  /\ distill_config.strategy = "diversity"
  /\ dataset.val.records = <<R1, R3, R4>>
  /\ Len(selected_ids.val) = 2
  /\ selected_ids.val[2] = 2

-----------------------------------------------------------------------------
(* View resolution.  SpecPage asks for pages of a session that holds any   *)
(* store of at most MaxRecords records, any filter result or none, and any *)
(* preview over them or none: every view name and an unknown one, pages 0  *)
(* to MaxPage, page sizes 0 to MaxPageSize.                                *)

PageStores == {StoreOfRecords("gen", Take(<<R1, R4, R8, R3>>, n)) : n \in 0..MaxRecords}

InitPage ==
  /\ \E store \in PageStores :
       /\ dataset = Some(store)
       /\ filtered_ids \in {None} \cup {Some(l) : l \in SortedIdLists(store.record_count)}
       /\ \/ selected_ids = None /\ removed_ids = None
          \/ \E S \in SUBSET Range(BaseIds(store, filtered_ids)) :
               /\ selected_ids = Some(SortedSeq(S))
               /\ removed_ids = Some(SortedSeq(Range(BaseIds(store, filtered_ids)) \ S))
  /\ field_map = DefaultFieldMap
  /\ filters = DefaultFilters
  /\ distill_config = DefaultDistill
  /\ manual_include = {}
  /\ manual_exclude = {}
  /\ cancel = FALSE
  /\ importOp = IdleImport
  /\ filterOp = IdleFilter
  /\ distillOp = IdleDistill
  /\ exportOp = IdleExport
  /\ last = Err("none", "Ok")

NextPage ==
  \E view \in Views \cup {"other"}, page \in 0..MaxPage, page_size \in 0..MaxPageSize :
    get_preview(view, page, page_size)

SpecPage == InitPage /\ [][NextPage]_vars

\* the ids a view lists, in order: all ids of the store for raw and for
\* filtered without a filter result, the stored list otherwise, nothing for a
\* list that is absent
ViewList(view) ==
  CASE view = "raw" -> RangeVec(0, dataset.val.record_count)
    [] view = "filtered" ->
         IF IsSome(filtered_ids) THEN filtered_ids.val
         ELSE RangeVec(0, dataset.val.record_count)
    [] view = "selected" -> OrEmpty(selected_ids)
    [] OTHER -> OrEmpty(removed_ids)

\* the elements of a list at positions (p-1)*s to (p-1)*s+s-1, counted from 0
PageOfList(list, p, s) ==
  [k \in 1..Max(0, Min(s, Len(list) - (p - 1) * s)) |-> list[(p - 1) * s + k]]

\* the pages 1 to ceil(total/s) of a view, one after the other
AllPages(view, s) ==
  Concat([p \in 1..((Len(ViewList(view)) + s - 1) \div s) |->
            resolve_view_ids(filtered_ids, selected_ids, removed_ids,
                             dataset.val, view, p, s).ids])

\* C15: page p (from 1) of size s of a view holds the elements of the view's
\* list at positions (p-1)*s to (p-1)*s+s-1, and the total is the length of
\* that list: all ids of the store for raw and for filtered without a filter
\* result, the stored list for filtered, selected and removed, nothing (total
\* 0) for an absent selected or removed list.  The pages 1 to ceil(total/s),
\* one after the other, give every id of the view once, in order.
C15_PagesCoverView ==
  /\ (last.cmd = "get_preview" /\ last.args.view \in Views /\ last.args.page >= 1) =>
       /\ last.outcome = "Ok"
       /\ last.summary.items =
            PageOfList(ViewList(last.args.view), last.args.page, last.args.page_size)
       /\ last.summary.total_count = Len(ViewList(last.args.view))
  /\ IsSome(dataset) =>
       \A view \in Views, s \in 1..MaxPageSize : AllPages(view, s) = ViewList(view)

\* the second page of two ids of a selection of three has been returned
C15_Witness ==
  /\ last.cmd = "get_preview"
  /\ last.args = [view |-> "selected", page |-> 2, page_size |-> 2]
  /\ IsSome(selected_ids)
  /\ Len(selected_ids.val) = 3
  /\ last.summary.items = <<selected_ids.val[3]>>
  /\ last.summary.total_count = 3

-----------------------------------------------------------------------------
(* Deduplication.  SpecDedup makes one apply_filters call over any store   *)
(* of at most MaxRecords records whose instructions are exact duplicates,  *)
(* near duplicates at SimHash distances 1 and 3, texts 4 bits apart,       *)
(* whitespace and the empty text.                                          *)

DedupPool == {R1, R2, R3, R5, R7, R10, R11}

DedupStores == {StoreOfRecords("gen", rs) : rs \in SeqsUpTo(DedupPool, MaxRecords)}

\* exact dedup alone, only the output required: an instruction may be empty
ExactOutputFilters == [DefaultFilters EXCEPT !.require_fields = <<"a">>]

\* exact dedup alone, category B only
ExactCategoryFilters == [DefaultFilters EXCEPT !.categories = <<<<"b">>>>]

\* fuzzy dedup alone, only the output required
FuzzyOutputFilters ==
  [DefaultFilters EXCEPT !.require_fields = <<"a">>, !.dedupe_exact = FALSE,
                         !.dedupe_fuzzy = TRUE]

DedupCalls ==
  {ExactOutputFilters, ExactCategoryFilters, FuzzyOutputFilters, OutputRequiredFilters}

InitDedup ==
  /\ \E store \in DedupStores : dataset = Some(store)
  /\ field_map = DefaultFieldMap
  /\ filters = DefaultFilters
  /\ distill_config = DefaultDistill
  /\ filtered_ids = None
  /\ selected_ids = None
  /\ removed_ids = None
  /\ manual_include = {}
  /\ manual_exclude = {}
  /\ cancel = FALSE
  /\ importOp = IdleImport
  /\ filterOp = IdleFilter
  /\ distillOp = IdleDistill
  /\ exportOp = IdleExport
  /\ last = Err("none", "Ok")

NextDedup ==
  \/ \E f \in DedupCalls :
       /\ ~IsSome(filtered_ids)
       /\ FilterBegin(f, FullFieldMap)
  \/ FilterLine(FALSE)
  \/ FilterCommit

SpecDedup == InitDedup /\ [][NextDedup]_vars

\* the SimHashes of the kept records of a run that have an instruction text
KeptHashes(w) ==
  {simhash(InstructionText(w.store.records[id + 1], w.field_map)) :
     id \in {i \in Range(w.filtered_ids) :
               InstructionText(w.store.records[i + 1], w.field_map) # <<>>}}

\* the hashes the segment index holds
IndexedHashes(w) == UNION {Range(w.fuzzy_buckets[key]) : key \in DOMAIN w.fuzzy_buckets}

\* the run reads a line whose record comes to the fuzzy step
ReachesFuzzy(w, record) ==
  /\ filterOp.pc = "run"
  /\ filterOp'.pc = "run"
  /\ PassesPredicates(record, w.filters, w.field_map)
  /\ ~ExactDuplicate(w, record)
  /\ FuzzyApplies(w, record)

\* what the fuzzy step does to a record of the given hash, by a scan of the
\* kept hashes
FuzzyStepByScan(w, after, hash) ==
  IF \E h \in KeptHashes(w) : hamming_distance(h, hash) <= 3
  THEN /\ after.filtered_ids = w.filtered_ids
       /\ after.duplicates_removed = w.duplicates_removed + 1
       /\ after.fuzzy_buckets = w.fuzzy_buckets
  ELSE /\ after.filtered_ids = Append(w.filtered_ids, w.idx)
       /\ after.duplicates_removed = w.duplicates_removed
       /\ IndexedHashes(after) = IndexedHashes(w) \cup {hash}

\* the kept hashes are more than 3 bits apart, and they are the indexed ones
KeptApart(w) ==
  /\ \A h1 \in KeptHashes(w), h2 \in KeptHashes(w) :
       h1 # h2 => hamming_distance(h1, h2) > 3
  /\ IndexedHashes(w) = KeptHashes(w)

\* C19: the fuzzy step decides as a scan of all kept hashes would: a record
\* that comes to it is dropped, and counted, exactly when the SimHash of some
\* record kept before it is within Hamming distance 3; the hash of a dropped
\* record is not indexed; the kept hashes are pairwise more than 3 apart.
C19_FuzzyIndexIsScan ==
  [][ReachesFuzzy(filterOp.w, filterOp.w.store.records[filterOp.w.idx + 1]) =>
       /\ FuzzyStepByScan(filterOp.w, filterOp'.w,
                          simhash(InstructionText(filterOp.w.store.records[filterOp.w.idx + 1],
                                                  filterOp.w.field_map)))
       /\ KeptApart(filterOp'.w)]_vars

\* a record has been kept whose hash is 4 bits from the one kept before it,
\* and the next, 3 bits from the first and 1 from the second, dropped
C19_Witness ==
  /\ filterOp.pc = "run"
  /\ filterOp.w.filters.dedupe_fuzzy
  /\ filterOp.w.store.records = <<R3, R11, R10>>
  /\ filterOp.w.idx = 3
  /\ filterOp.w.filtered_ids = <<0, 1>>
  /\ filterOp.w.duplicates_removed = 1

\* the normalized instruction of a record of the store
NormalizedAt(store, fm, i) == Normalized(InstructionText(store.records[i + 1], fm))

\* the ids that pass predicates 1-4 and are no later copy: the instruction
\* text is empty, or no passing record of lower id has the same normalized
\* instruction
FirstOccurrences(store, fm, passing) ==
  {i \in passing :
     \/ InstructionText(store.records[i + 1], fm) = <<>>
     \/ ~\E j \in passing :
           /\ j < i
           /\ InstructionText(store.records[j + 1], fm) # <<>>
           /\ NormalizedAt(store, fm, j) = NormalizedAt(store, fm, i)}

\* C20: with dedupe_exact on and dedupe_fuzzy off, filtered_ids holds, of the
\* records that pass predicates 1-4, the one of lowest id for each normalized
\* instruction and every record whose instruction text is empty; each other
\* passing record adds 1 to duplicates_removed.  A record that fails an
\* earlier predicate is no first occurrence.
C20_ExactKeepsFirst ==
  (/\ IsSome(filtered_ids)
   /\ last.cmd = "apply_filters"
   /\ last.outcome = "Ok"
   /\ filters.dedupe_exact
   /\ ~filters.dedupe_fuzzy) =>
    /\ Range(filtered_ids.val)
         = FirstOccurrences(dataset.val, field_map,
                            PassingIds(dataset.val, filters, field_map))
    /\ last.summary.duplicates_removed
         = Cardinality(PassingIds(dataset.val, filters, field_map))
             - Cardinality(FirstOccurrences(dataset.val, field_map,
                                            PassingIds(dataset.val, filters, field_map)))

\* R1 is of category A and rejected; of its two copies of category B, in
\* another case and spacing, the first is kept and the second dropped
C20_Witness ==
  /\ IsSome(filtered_ids)
  /\ last.cmd = "apply_filters"
  /\ last.outcome = "Ok"
  /\ filters = ExactCategoryFilters
  /\ dataset.val.records = <<R1, R2, R2>>
  /\ filtered_ids.val = <<1>>
  /\ last.summary.duplicates_removed = 1

-----------------------------------------------------------------------------
(* Progress reports of a filter run.                                       *)

\* the progress report for line i of the store the worker reads
ReportOf(w, i) == [current |-> i, total |-> w.store.record_count]

\* C21: during a filter run the progress callback has fired for every line
\* read so far whose source index is a multiple of 1,000, whether the record
\* on it was kept or not, and every report carries a source index (a multiple
\* of 1,000 below the line being read), not the number of records kept.
C21_ProgressEveryThousand ==
  filterOp.pc = "run" =>
    LET w == filterOp.w
    IN /\ \A i \in 0..(w.idx - 1) :
            i % ProgressEvery = 0 => ReportOf(w, i) \in Range(w.progress)
       /\ \A k \in DOMAIN w.progress :
            /\ w.progress[k].current % ProgressEvery = 0
            /\ w.progress[k].current < w.idx
            /\ w.progress[k] = ReportOf(w, w.progress[k].current)

-----------------------------------------------------------------------------
(* A preview that overlaps a filter run or an import.                      *)

\* C22: whenever preview_distillation commits, selected_ids and removed_ids
\* partition the base set of the session as it is at the commit: the
\* filtered_ids then published, or every id of the dataset then loaded when
\* filtered_ids is absent, also when apply_filters or import_dataset has
\* committed since the preview took its snapshot.
C22_PreviewOverCurrentBase ==
  [][PreviewCommits =>
       /\ Range(selected_ids'.val) \cap Range(removed_ids'.val) = {}
       /\ Range(selected_ids'.val) \cup Range(removed_ids'.val)
            = Range(BaseIds(dataset'.val, filtered_ids'))]_vars

-----------------------------------------------------------------------------
(* Cancellation of a long operation while another one is launched.         *)

\* the ingestion is about to poll the flag: its next value parses, and
\* write_record polls before it writes
ImportPolls ==
  /\ importOp.pc = "run"
  /\ importOp.w.pos < Len(importOp.w.source.items)
  /\ importOp.w.source.items[importOp.w.pos + 1].ok

\* the filter worker has a line left to read, and polls before it reads
FilterPolls ==
  /\ filterOp.pc = "run"
  /\ filterOp.w.idx < Len(filterOp.w.store.records)

\* the distillation worker has a line left to read, and polls before it reads
DistillPolls ==
  /\ distillOp.pc = "run"
  /\ distillOp.idx < Len(distillOp.store.records)

\* a step taken with the flag set and the operation in slot op about to
\* poll: a step of another command leaves the flag set, and the operation's
\* own step ends it with Canceled and publishes nothing
CancelReaches(op, opNext, cmd) ==
  IF opNext = op
  THEN cancel'
  ELSE /\ opNext.pc = "idle"
       /\ last' = Err(cmd, "Canceled")
       /\ UNCHANGED published

\* C23: a cancel request is not lost.  Once cancel_task has set the flag while
\* an ingestion, a filter run or a distillation is still reading records (its
\* entry cleared the flag, so a set flag was set during the run), the flag
\* stays set until that operation polls, whatever other command is invoked,
\* the launch of another long operation included, and at its poll the
\* operation fails with Canceled and publishes nothing.
C23_CancelNotLost ==
  [][/\ (cancel /\ ImportPolls) =>
          CancelReaches(importOp, importOp', "import_dataset")
     /\ (cancel /\ FilterPolls) =>
          CancelReaches(filterOp, filterOp', "apply_filters")
     /\ (cancel /\ DistillPolls) =>
          CancelReaches(distillOp, distillOp', "preview_distillation")]_vars

-----------------------------------------------------------------------------
(* The ids of a view as export_dataset and get_preview resolve them.       *)

\* the step on which export_dataset clones the id list of its view
ExportResolves ==
  /\ exportOp.pc = "snap"
  /\ exportOp'.pc = "entry"

\* C24: preview and export agree on what a view contains.  In every session
\* state with a dataset and for each of the views raw, filtered, selected and
\* removed, the id list export_dataset takes for the view is all the pages
\* view resolution returns for it, one after the other, whatever the page
\* size, also for the view filtered before any filter has been applied.
C24_ExportIsAllPages ==
  [][ExportResolves =>
       \A s \in 1..MaxPageSize : exportOp'.ids = AllPages(exportOp.view, s)]_vars

====
